---- MODULE Spec2Model ----
\* Orchestration core of core/langgraph_multiagent_system.py: the graph built
\* by build_langgraph (RouterAgent, five responder nodes, ResponseSynthesizer),
\* the classifier, the continuation policy and process_request.
\*
\* Text is modelled as sequences of one-character strings, so that
\* str.lower() and the substring tests of the routing code are computed.
\* Python values that can be of several types are wrapped as records with a
\* "type" field: a missing key is AbsentV, None is NoneV, a str is
\* Str(chars) or a token record, a dict carries its keys as fields.
EXTENDS Integers, Sequences, FiniteSets, TLC

\* ------------------------------------------------------------------ bounds
\* most words in a question
MaxWords == 3
\* most node executions of one graph run that the model follows
MaxSteps == 9

\* ------------------------------------------------------------ python values
AbsentV == [type |-> "absent"]
NoneV == [type |-> "none"]
EmptyDict == [type |-> "dict"]
Str(chars) == [type |-> "str", chars |-> chars]
IsStr(v) == v.type = "str"
IsDict(v) == v.type = "dict"

\* --------------------------------------------------------------------- text
\* str.lower() on the letters that occur in the model's texts
LowerChar(c) ==
    CASE c = "W" -> "w"
      [] c = "S" -> "s"
      [] c = "G" -> "g"
      [] OTHER -> c
Lower(s) == [i \in 1..Len(s) |-> LowerChar(s[i])]
\* Python's `keyword in text` on strings
IsSubstring(k, s) ==
    \E i \in 1..(Len(s) - Len(k) + 1) : \A j \in 1..Len(k) : s[i + j - 1] = k[j]
\* any(keyword in text for keyword in keywords)
AnyIn(keywords, text) ==
    \E j \in 1..Len(keywords) : IsSubstring(keywords[j], text)

\* _analyze_query_for_routing, weather_keywords
weather_keywords ==
    << <<"w","e","a","t","h","e","r">>,
       <<"t","e","m","p","e","r","a","t","u","r","e">>,
       <<"r","a","i","n">>,
       <<"s","u","n">>,
       <<"c","l","i","m","a","t","e">>,
       <<"f","o","r","e","c","a","s","t">>,
       <<"h","u","m","i","d","i","t","y">>,
       <<"w","i","n","d">>,
       <<"s","t","o","r","m">>,
       <<"s","n","o","w">> >>

\* _analyze_query_for_routing, dining_keywords
dining_keywords ==
    << <<"r","e","s","t","a","u","r","a","n","t">>,
       <<"f","o","o","d">>,
       <<"c","u","i","s","i","n","e">>,
       <<"d","i","n","i","n","g">>,
       <<"e","a","t">>,
       <<"m","e","a","l">>,
       <<"c","h","e","f">>,
       <<"m","e","n","u">>,
       <<"c","o","o","k","i","n","g">>,
       <<"r","e","c","i","p","e">> >>

\* _analyze_query_for_routing, location_keywords
location_keywords ==
    << <<"s","c","e","n","i","c">>,
       <<"b","e","a","u","t","i","f","u","l">>,
       <<"l","o","c","a","t","i","o","n">>,
       <<"t","o","u","r","i","s","t">>,
       <<"d","e","s","t","i","n","a","t","i","o","n">>,
       <<"v","i","e","w">>,
       <<"l","a","n","d","s","c","a","p","e">>,
       <<"m","o","u","n","t","a","i","n">> >>

\* _analyze_query_for_routing, forest_keywords
forest_keywords ==
    << <<"f","o","r","e","s","t">>,
       <<"t","r","e","e">>,
       <<"w","i","l","d","l","i","f","e">>,
       <<"e","c","o","s","y","s","t","e","m">>,
       <<"c","o","n","s","e","r","v","a","t","i","o","n">>,
       <<"n","a","t","u","r","e">>,
       <<"b","i","o","d","i","v","e","r","s","i","t","y">> >>

\* _analyze_query_for_routing, search_keywords
search_keywords ==
    << <<"s","e","a","r","c","h">>,
       <<"h","i","s","t","o","r","y">>,
       <<"r","e","m","e","m","b","e","r">>,
       <<"p","r","e","v","i","o","u","s">>,
       <<"s","i","m","i","l","a","r">>,
       <<"p","a","s","t">>,
       <<"r","e","c","a","l","l">> >>

\* _analyze_query_for_routing, travel_keywords
travel_keywords ==
    << <<"t","r","a","v","e","l">>,
       <<"t","r","i","p">>,
       <<"v","a","c","a","t","i","o","n">>,
       <<"v","i","s","i","t">>,
       <<"p","l","a","n">> >>

\* _route_to_next_agent, after WeatherAgent: dining words
DiningHintsAfterWeather ==
    << <<"r","e","s","t","a","u","r","a","n","t">>,
       <<"f","o","o","d">>,
       <<"d","i","n","i","n","g">>,
       <<"e","a","t">> >>

\* _route_to_next_agent, after WeatherAgent and DiningAgent: location words
LocationHints ==
    << <<"l","o","c","a","t","i","o","n">>,
       <<"p","l","a","c","e">>,
       <<"w","h","e","r","e">>,
       <<"s","c","e","n","i","c">> >>

\* _route_to_next_agent, after DiningAgent and ScenicLocationFinderAgent: weather words
WeatherHints ==
    << <<"w","e","a","t","h","e","r">>,
       <<"c","l","i","m","a","t","e">>,
       <<"t","e","m","p","e","r","a","t","u","r","e">> >>

\* _route_to_next_agent, after ScenicLocationFinderAgent: dining words
DiningHintsAfterLocation ==
    << <<"r","e","s","t","a","u","r","a","n","t">>,
       <<"f","o","o","d">>,
       <<"d","i","n","i","n","g">> >>

\* _route_to_next_agent, after ScenicLocationFinderAgent: forest words
ForestHints ==
    << <<"f","o","r","e","s","t">>,
       <<"t","r","e","e">>,
       <<"w","i","l","d","l","i","f","e">> >>

\* _route_to_next_agent, after ForestAnalyzerAgent: location words
LocationHintsAfterForest ==
    << <<"l","o","c","a","t","i","o","n">>,
       <<"w","h","e","r","e">>,
       <<"s","c","e","n","i","c">> >>

\* _route_to_next_agent, after ForestAnalyzerAgent: weather words
WeatherHintsAfterForest ==
    << <<"w","e","a","t","h","e","r">>,
       <<"c","l","i","m","a","t","e">> >>

\* words the questions of the model are made of, in the order they are joined
Vocabulary ==
    << <<"t","r","i","p">>,
       <<"p","a","s","t">>,
       <<"t","r","e","e">>,
       <<"w","h","e","r","e">>,
       <<"s","c","e","n","i","c">>,
       <<"m","e","n","u">>,
       <<"f","o","o","d">>,
       <<"S","u","n">>,
       <<"W","e","a","t","h","e","r">> >>

\* the space-separated text of a sequence of words
RECURSIVE JoinWords(_)
JoinWords(ws) ==
    IF Len(ws) = 0 THEN <<>>
    ELSE IF Len(ws) = 1 THEN ws[1]
    ELSE ws[1] \o <<" ">> \o JoinWords(Tail(ws))
\* the words of Vocabulary whose index is in S, in vocabulary order
RECURSIVE PickWords(_, _)
PickWords(S, i) ==
    IF i > Len(Vocabulary) THEN <<>>
    ELSE IF i \in S THEN <<Vocabulary[i]>> \o PickWords(S, i + 1)
    ELSE PickWords(S, i + 1)
\* the question texts of the model: at most MaxWords distinct words
Questions ==
    { Str(JoinWords(PickWords(S, 1))) :
        S \in { T \in SUBSET (1..Len(Vocabulary)) : Cardinality(T) <= MaxWords } }

\* ------------------------------------------------------------- classifier
Agents ==
    {"WeatherAgent", "DiningAgent", "ScenicLocationFinderAgent",
     "ForestAnalyzerAgent", "SearchAgent"}
\* the keywords of a responder's descriptor in agents_config
\* (load_agent_configuration); they are the classifier's lists
ConfigKeywords(agent) ==
    CASE agent = "WeatherAgent" -> weather_keywords
      [] agent = "DiningAgent" -> dining_keywords
      [] agent = "ScenicLocationFinderAgent" -> location_keywords
      [] agent = "ForestAnalyzerAgent" -> forest_keywords
      [] agent = "SearchAgent" -> search_keywords
\* the path map with "dining" leading to ResponseSynthesizer
EdgeMap_DiningSynthesizes(label) ==
    CASE label = "weather" -> "WeatherAgent"
      [] label = "dining" -> "ResponseSynthesizer"
      [] label = "location" -> "ScenicLocationFinderAgent"
      [] label = "forest" -> "ForestAnalyzerAgent"
      [] label = "search" -> "SearchAgent"
      [] label = "synthesize" -> "ResponseSynthesizer"
      [] label = "end" -> "END"
      [] OTHER -> "RAISED"

\* the path map with the entries of "location" and "forest" exchanged
EdgeMap_LocationForestSwapped(label) ==
    CASE label = "weather" -> "WeatherAgent"
      [] label = "dining" -> "DiningAgent"
      [] label = "location" -> "ForestAnalyzerAgent"
      [] label = "forest" -> "ScenicLocationFinderAgent"
      [] label = "search" -> "SearchAgent"
      [] label = "synthesize" -> "ResponseSynthesizer"
      [] label = "end" -> "END"
      [] OTHER -> "RAISED"

\* the path map with "forest" leading to SearchAgent
EdgeMap_ForestToSearch(label) ==
    CASE label = "weather" -> "WeatherAgent"
      [] label = "dining" -> "DiningAgent"
      [] label = "location" -> "ScenicLocationFinderAgent"
      [] label = "forest" -> "SearchAgent"
      [] label = "search" -> "SearchAgent"
      [] label = "synthesize" -> "ResponseSynthesizer"
      [] label = "end" -> "END"
      [] OTHER -> "RAISED"

\* the path map of the conditional edges added in build_langgraph
EdgeMap(label) ==
    CASE label = "weather" -> "WeatherAgent"
      [] label = "dining" -> "DiningAgent"
      [] label = "location" -> "ScenicLocationFinderAgent"
      [] label = "forest" -> "ForestAnalyzerAgent"
      [] label = "search" -> "SearchAgent"
      [] label = "synthesize" -> "ResponseSynthesizer"
      [] label = "end" -> "END"
      [] OTHER -> "RAISED"

\* _analyze_query_for_routing testing the dining keywords before the weather
\* keywords
AnalyzeQueryForRouting_DiningFirst(question) ==
    LET question_lower == Lower(question) IN
    IF AnyIn(dining_keywords, question_lower) THEN "dining"
    ELSE IF AnyIn(weather_keywords, question_lower) THEN "weather"
    ELSE IF AnyIn(location_keywords, question_lower) THEN "location"
    ELSE IF AnyIn(forest_keywords, question_lower) THEN "forest"
    ELSE IF AnyIn(search_keywords, question_lower) THEN "search"
    ELSE IF AnyIn(travel_keywords, question_lower) THEN "location"
    ELSE "location"

\* _analyze_query_for_routing doing what its last comment says, "Default to
\* synthesize if no specific routing"
AnalyzeQueryForRouting_DefaultSynthesize(question) ==
    LET question_lower == Lower(question) IN
    IF AnyIn(weather_keywords, question_lower) THEN "weather"
    ELSE IF AnyIn(dining_keywords, question_lower) THEN "dining"
    ELSE IF AnyIn(location_keywords, question_lower) THEN "location"
    ELSE IF AnyIn(forest_keywords, question_lower) THEN "forest"
    ELSE IF AnyIn(search_keywords, question_lower) THEN "search"
    ELSE IF AnyIn(travel_keywords, question_lower) THEN "location"
    ELSE "synthesize"

\* _analyze_query_for_routing falling back to the forest route
AnalyzeQueryForRouting_DefaultForest(question) ==
    LET question_lower == Lower(question) IN
    IF AnyIn(weather_keywords, question_lower) THEN "weather"
    ELSE IF AnyIn(dining_keywords, question_lower) THEN "dining"
    ELSE IF AnyIn(location_keywords, question_lower) THEN "location"
    ELSE IF AnyIn(forest_keywords, question_lower) THEN "forest"
    ELSE IF AnyIn(search_keywords, question_lower) THEN "search"
    ELSE IF AnyIn(travel_keywords, question_lower) THEN "location"
    ELSE "forest"

\* _analyze_query_for_routing on a str; `question` is its character sequence
AnalyzeQueryForRouting(question) ==
    LET question_lower == Lower(question) IN
    IF AnyIn(weather_keywords, question_lower) THEN "weather"
    ELSE IF AnyIn(dining_keywords, question_lower) THEN "dining"
    ELSE IF AnyIn(location_keywords, question_lower) THEN "location"
    ELSE IF AnyIn(forest_keywords, question_lower) THEN "forest"
    ELSE IF AnyIn(search_keywords, question_lower) THEN "search"
    ELSE IF AnyIn(travel_keywords, question_lower) THEN "location"
    ELSE "location"

\* ------------------------------------------------------------ dict helpers
\* A dict whose insertion order matters (agent_responses) is a sequence of
\* [k, v] records with distinct keys.
Keys(d) == { d[i].k : i \in 1..Len(d) }
KeyList(d) == [i \in 1..Len(d) |-> d[i].k]
Has(d, key) == key \in Keys(d)
Lookup(d, key) == (CHOOSE i \in 1..Len(d) : d[i].k = key) 
ValueOf(d, key) == d[Lookup(d, key)].v
\* d[key] = value: replaces in place, or appends a new key
Put(d, key, value) ==
    IF Has(d, key)
    THEN [d EXCEPT ![Lookup(d, key)] = [k |-> key, v |-> value]]
    ELSE Append(d, [k |-> key, v |-> value])

\* the keys of MultiAgentState
StateKeys ==
    {"user", "user_id", "question", "current_agent", "next_agent",
     "agent_chain", "routing_decision", "response", "agent_responses",
     "final_response", "context", "memory", "shared_data", "edges_traversed",
     "execution_path", "timestamp", "weather_data", "dining_data",
     "location_data", "forest_data", "search_results"}
\* state.get(key, default): `present` holds the keys the state has
Get(s, key, default) == IF key \in s.present THEN s[key] ELSE default
\* updated_state[key] = value
Set(s, key, value) == [s EXCEPT ![key] = value, !.present = @ \cup {key}]

\* ------------------------------------------------------ continuation policy
\* _route_to_next_agent without the `not in agent_responses` tests of the
\* hops between ScenicLocationFinderAgent and ForestAnalyzerAgent
RouteToNextAgent_NoRunCheck(s) ==
    LET current_agent == Get(s, "current_agent", "")
        question == Lower(Get(s, "question", Str(<<>>)).chars)
        agent_responses == Get(s, "agent_responses", <<>>)
        tail == IF Len(agent_responses) > 1 THEN "synthesize"
                ELSE IF Len(agent_responses) >= 1 THEN "synthesize"
                ELSE "end"
    IN
    IF current_agent = "WeatherAgent" THEN
        IF AnyIn(DiningHintsAfterWeather, question)
           /\ ~Has(agent_responses, "DiningAgent") THEN "dining"
        ELSE IF AnyIn(LocationHints, question)
           /\ ~Has(agent_responses, "ScenicLocationFinderAgent") THEN "location"
        ELSE tail
    ELSE IF current_agent = "DiningAgent" THEN
        IF AnyIn(WeatherHints, question)
           /\ ~Has(agent_responses, "WeatherAgent") THEN "weather"
        ELSE IF AnyIn(LocationHints, question)
           /\ ~Has(agent_responses, "ScenicLocationFinderAgent") THEN "location"
        ELSE tail
    ELSE IF current_agent = "ScenicLocationFinderAgent" THEN
        IF AnyIn(WeatherHints, question)
           /\ ~Has(agent_responses, "WeatherAgent") THEN "weather"
        ELSE IF AnyIn(DiningHintsAfterLocation, question)
           /\ ~Has(agent_responses, "DiningAgent") THEN "dining"
        ELSE IF AnyIn(ForestHints, question) THEN "forest"
        ELSE tail
    ELSE IF current_agent = "ForestAnalyzerAgent" THEN
        IF AnyIn(LocationHintsAfterForest, question) THEN "location"
        ELSE IF AnyIn(WeatherHintsAfterForest, question)
           /\ ~Has(agent_responses, "WeatherAgent") THEN "weather"
        ELSE tail
    ELSE tail

\* _route_to_next_agent without the `"ForestAnalyzerAgent" not in
\* agent_responses` test after ScenicLocationFinderAgent
RouteToNextAgent_ForestAgain(s) ==
    LET current_agent == Get(s, "current_agent", "")
        question == Lower(Get(s, "question", Str(<<>>)).chars)
        agent_responses == Get(s, "agent_responses", <<>>)
        tail == IF Len(agent_responses) > 1 THEN "synthesize"
                ELSE IF Len(agent_responses) >= 1 THEN "synthesize"
                ELSE "end"
    IN
    IF current_agent = "WeatherAgent" THEN
        IF AnyIn(DiningHintsAfterWeather, question)
           /\ ~Has(agent_responses, "DiningAgent") THEN "dining"
        ELSE IF AnyIn(LocationHints, question)
           /\ ~Has(agent_responses, "ScenicLocationFinderAgent") THEN "location"
        ELSE tail
    ELSE IF current_agent = "DiningAgent" THEN
        IF AnyIn(WeatherHints, question)
           /\ ~Has(agent_responses, "WeatherAgent") THEN "weather"
        ELSE IF AnyIn(LocationHints, question)
           /\ ~Has(agent_responses, "ScenicLocationFinderAgent") THEN "location"
        ELSE tail
    ELSE IF current_agent = "ScenicLocationFinderAgent" THEN
        IF AnyIn(WeatherHints, question)
           /\ ~Has(agent_responses, "WeatherAgent") THEN "weather"
        ELSE IF AnyIn(DiningHintsAfterLocation, question)
           /\ ~Has(agent_responses, "DiningAgent") THEN "dining"
        ELSE IF AnyIn(ForestHints, question) THEN "forest"
        ELSE tail
    ELSE IF current_agent = "ForestAnalyzerAgent" THEN
        IF AnyIn(LocationHintsAfterForest, question)
           /\ ~Has(agent_responses, "ScenicLocationFinderAgent") THEN "location"
        ELSE IF AnyIn(WeatherHintsAfterForest, question)
           /\ ~Has(agent_responses, "WeatherAgent") THEN "weather"
        ELSE tail
    ELSE tail

\* _route_to_next_agent taking the hop from WeatherAgent to
\* ScenicLocationFinderAgent without the keyword test
RouteToNextAgent_UnhintedLocation(s) ==
    LET current_agent == Get(s, "current_agent", "")
        question == Lower(Get(s, "question", Str(<<>>)).chars)
        agent_responses == Get(s, "agent_responses", <<>>)
        tail == IF Len(agent_responses) > 1 THEN "synthesize"
                ELSE IF Len(agent_responses) >= 1 THEN "synthesize"
                ELSE "end"
    IN
    IF current_agent = "WeatherAgent" THEN
        IF AnyIn(DiningHintsAfterWeather, question)
           /\ ~Has(agent_responses, "DiningAgent") THEN "dining"
        ELSE IF ~Has(agent_responses, "ScenicLocationFinderAgent") THEN "location"
        ELSE tail
    ELSE IF current_agent = "DiningAgent" THEN
        IF AnyIn(WeatherHints, question)
           /\ ~Has(agent_responses, "WeatherAgent") THEN "weather"
        ELSE IF AnyIn(LocationHints, question)
           /\ ~Has(agent_responses, "ScenicLocationFinderAgent") THEN "location"
        ELSE tail
    ELSE IF current_agent = "ScenicLocationFinderAgent" THEN
        IF AnyIn(WeatherHints, question)
           /\ ~Has(agent_responses, "WeatherAgent") THEN "weather"
        ELSE IF AnyIn(DiningHintsAfterLocation, question)
           /\ ~Has(agent_responses, "DiningAgent") THEN "dining"
        ELSE IF AnyIn(ForestHints, question)
           /\ ~Has(agent_responses, "ForestAnalyzerAgent") THEN "forest"
        ELSE tail
    ELSE IF current_agent = "ForestAnalyzerAgent" THEN
        IF AnyIn(LocationHintsAfterForest, question)
           /\ ~Has(agent_responses, "ScenicLocationFinderAgent") THEN "location"
        ELSE IF AnyIn(WeatherHintsAfterForest, question)
           /\ ~Has(agent_responses, "WeatherAgent") THEN "weather"
        ELSE tail
    ELSE tail

\* _route_to_next_agent testing, after ScenicLocationFinderAgent, the dining
\* words before the weather words
RouteToNextAgent_DiningBeforeWeather(s) ==
    LET current_agent == Get(s, "current_agent", "")
        question == Lower(Get(s, "question", Str(<<>>)).chars)
        agent_responses == Get(s, "agent_responses", <<>>)
        tail == IF Len(agent_responses) > 1 THEN "synthesize"
                ELSE IF Len(agent_responses) >= 1 THEN "synthesize"
                ELSE "end"
    IN
    IF current_agent = "WeatherAgent" THEN
        IF AnyIn(DiningHintsAfterWeather, question)
           /\ ~Has(agent_responses, "DiningAgent") THEN "dining"
        ELSE IF AnyIn(LocationHints, question)
           /\ ~Has(agent_responses, "ScenicLocationFinderAgent") THEN "location"
        ELSE tail
    ELSE IF current_agent = "DiningAgent" THEN
        IF AnyIn(WeatherHints, question)
           /\ ~Has(agent_responses, "WeatherAgent") THEN "weather"
        ELSE IF AnyIn(LocationHints, question)
           /\ ~Has(agent_responses, "ScenicLocationFinderAgent") THEN "location"
        ELSE tail
    ELSE IF current_agent = "ScenicLocationFinderAgent" THEN
        IF AnyIn(DiningHintsAfterLocation, question)
           /\ ~Has(agent_responses, "DiningAgent") THEN "dining"
        ELSE IF AnyIn(WeatherHints, question)
           /\ ~Has(agent_responses, "WeatherAgent") THEN "weather"
        ELSE IF AnyIn(ForestHints, question)
           /\ ~Has(agent_responses, "ForestAnalyzerAgent") THEN "forest"
        ELSE tail
    ELSE IF current_agent = "ForestAnalyzerAgent" THEN
        IF AnyIn(LocationHintsAfterForest, question)
           /\ ~Has(agent_responses, "ScenicLocationFinderAgent") THEN "location"
        ELSE IF AnyIn(WeatherHintsAfterForest, question)
           /\ ~Has(agent_responses, "WeatherAgent") THEN "weather"
        ELSE tail
    ELSE tail

\* _route_to_next_agent: the label it returns for the state after a node
RouteToNextAgent(s) ==
    LET current_agent == Get(s, "current_agent", "")
        question == Lower(Get(s, "question", Str(<<>>)).chars)
        agent_responses == Get(s, "agent_responses", <<>>)
        tail == IF Len(agent_responses) > 1 THEN "synthesize"
                ELSE IF Len(agent_responses) >= 1 THEN "synthesize"
                ELSE "end"
    IN
    IF current_agent = "WeatherAgent" THEN
        IF AnyIn(DiningHintsAfterWeather, question)
           /\ ~Has(agent_responses, "DiningAgent") THEN "dining"
        ELSE IF AnyIn(LocationHints, question)
           /\ ~Has(agent_responses, "ScenicLocationFinderAgent") THEN "location"
        ELSE tail
    ELSE IF current_agent = "DiningAgent" THEN
        IF AnyIn(WeatherHints, question)
           /\ ~Has(agent_responses, "WeatherAgent") THEN "weather"
        ELSE IF AnyIn(LocationHints, question)
           /\ ~Has(agent_responses, "ScenicLocationFinderAgent") THEN "location"
        ELSE tail
    ELSE IF current_agent = "ScenicLocationFinderAgent" THEN
        IF AnyIn(WeatherHints, question)
           /\ ~Has(agent_responses, "WeatherAgent") THEN "weather"
        ELSE IF AnyIn(DiningHintsAfterLocation, question)
           /\ ~Has(agent_responses, "DiningAgent") THEN "dining"
        ELSE IF AnyIn(ForestHints, question)
           /\ ~Has(agent_responses, "ForestAnalyzerAgent") THEN "forest"
        ELSE tail
    ELSE IF current_agent = "ForestAnalyzerAgent" THEN
        IF AnyIn(LocationHintsAfterForest, question)
           /\ ~Has(agent_responses, "ScenicLocationFinderAgent") THEN "location"
        ELSE IF AnyIn(WeatherHintsAfterForest, question)
           /\ ~Has(agent_responses, "WeatherAgent") THEN "weather"
        ELSE tail
    ELSE tail

\* ----------------------------------------- the policy under any keyword rules
\* The nine `any(word in question for word in [...])` tests of
\* _route_to_next_agent, named by the responder that ran and the responder
\* hinted at. An assignment of keywords to the lists fixes, for a question,
\* the outcome of each test.
HintTests ==
    {"weather_dining", "weather_location", "dining_weather", "dining_location",
     "location_weather", "location_dining", "location_forest",
     "forest_location", "forest_weather"}
RuleOutcomes == [HintTests -> BOOLEAN]

\* _route_to_next_agent under rules without the `not in agent_responses`
\* tests of the hops between ScenicLocationFinderAgent and
\* ForestAnalyzerAgent
RouteToNextAgentUnder_NoRunCheck(s, hit) ==
    LET current_agent == Get(s, "current_agent", "")
        agent_responses == Get(s, "agent_responses", <<>>)
        tail == IF Len(agent_responses) > 1 THEN "synthesize"
                ELSE IF Len(agent_responses) >= 1 THEN "synthesize"
                ELSE "end"
    IN
    IF current_agent = "WeatherAgent" THEN
        IF hit["weather_dining"]
           /\ ~Has(agent_responses, "DiningAgent") THEN "dining"
        ELSE IF hit["weather_location"]
           /\ ~Has(agent_responses, "ScenicLocationFinderAgent") THEN "location"
        ELSE tail
    ELSE IF current_agent = "DiningAgent" THEN
        IF hit["dining_weather"]
           /\ ~Has(agent_responses, "WeatherAgent") THEN "weather"
        ELSE IF hit["dining_location"]
           /\ ~Has(agent_responses, "ScenicLocationFinderAgent") THEN "location"
        ELSE tail
    ELSE IF current_agent = "ScenicLocationFinderAgent" THEN
        IF hit["location_weather"]
           /\ ~Has(agent_responses, "WeatherAgent") THEN "weather"
        ELSE IF hit["location_dining"]
           /\ ~Has(agent_responses, "DiningAgent") THEN "dining"
        ELSE IF hit["location_forest"] THEN "forest"
        ELSE tail
    ELSE IF current_agent = "ForestAnalyzerAgent" THEN
        IF hit["forest_location"] THEN "location"
        ELSE IF hit["forest_weather"]
           /\ ~Has(agent_responses, "WeatherAgent") THEN "weather"
        ELSE tail
    ELSE tail

\* _route_to_next_agent with the outcome of each keyword test given by `hit`
\* instead of the lists in the code
RouteToNextAgentUnder(s, hit) ==
    LET current_agent == Get(s, "current_agent", "")
        agent_responses == Get(s, "agent_responses", <<>>)
        tail == IF Len(agent_responses) > 1 THEN "synthesize"
                ELSE IF Len(agent_responses) >= 1 THEN "synthesize"
                ELSE "end"
    IN
    IF current_agent = "WeatherAgent" THEN
        IF hit["weather_dining"]
           /\ ~Has(agent_responses, "DiningAgent") THEN "dining"
        ELSE IF hit["weather_location"]
           /\ ~Has(agent_responses, "ScenicLocationFinderAgent") THEN "location"
        ELSE tail
    ELSE IF current_agent = "DiningAgent" THEN
        IF hit["dining_weather"]
           /\ ~Has(agent_responses, "WeatherAgent") THEN "weather"
        ELSE IF hit["dining_location"]
           /\ ~Has(agent_responses, "ScenicLocationFinderAgent") THEN "location"
        ELSE tail
    ELSE IF current_agent = "ScenicLocationFinderAgent" THEN
        IF hit["location_weather"]
           /\ ~Has(agent_responses, "WeatherAgent") THEN "weather"
        ELSE IF hit["location_dining"]
           /\ ~Has(agent_responses, "DiningAgent") THEN "dining"
        ELSE IF hit["location_forest"]
           /\ ~Has(agent_responses, "ForestAnalyzerAgent") THEN "forest"
        ELSE tail
    ELSE IF current_agent = "ForestAnalyzerAgent" THEN
        IF hit["forest_location"]
           /\ ~Has(agent_responses, "ScenicLocationFinderAgent") THEN "location"
        ELSE IF hit["forest_weather"]
           /\ ~Has(agent_responses, "WeatherAgent") THEN "weather"
        ELSE tail
    ELSE tail

\* the labels _analyze_query_for_routing can return, whatever its keyword
\* lists hold
RouterLabels == {"weather", "dining", "location", "forest", "search"}

\* _route_from_router
RouteFromRouter(s) == Get(s, "routing_decision", "location")
GeneralWeatherInquiry == Str(<<"G","e","n","e","r","a","l"," ","w","e","a","t","h","e","r"," ","i","n","q","u","i","r","y">>)
GeneralDiningInquiry == Str(<<"G","e","n","e","r","a","l"," ","d","i","n","i","n","g"," ","i","n","q","u","i","r","y">>)
GeneralLocationInquiry == Str(<<"G","e","n","e","r","a","l"," ","l","o","c","a","t","i","o","n"," ","i","n","q","u","i","r","y">>)
GeneralForestInquiry == Str(<<"G","e","n","e","r","a","l"," ","f","o","r","e","s","t"," ","i","n","q","u","i","r","y">>)
GeneralSearchInquiry == Str(<<"G","e","n","e","r","a","l"," ","s","e","a","r","c","h"," ","i","n","q","u","i","r","y">>)

\* ----------------------------------------------------- generation service
\* A str returned by the generation service, by the text it holds.
TextV(text) == [type |-> "str", text |-> text]
\* what one call of ollama_client.generate_response can do as seen by a node:
\* return a text, a whitespace-only text, an empty text, a value that is not
\* a str, or raise (the test doubles of test_null_safety_fixes.py raise)
Returns(v) == [kind |-> "return", value |-> v]
Raises == [kind |-> "raise"]
GenOutcomes ==
    {Returns(TextV("Generated answer.")), Returns(TextV("  ")),
     Returns(TextV("")), Returns(NoneV), Raises}
\* what prompt_manager.get_prompt can do: a dict with prompt and system, None,
\* a dict lacking a key, or raise
PromptOutcomes == {"ok", "none", "incomplete", "raise"}
\* The calls one responder execution makes and what each does: the fallback
\* call is made only after get_prompt or the primary call failed, and the
\* primary call only after get_prompt gave a usable prompt.
NotCalled == [kind |-> "not_called"]
Script(po, g1, g2) == [po |-> po, g1 |-> g1, g2 |-> g2]
Scripts ==
    { Script("ok", g, NotCalled) : g \in GenOutcomes \ {Raises} }
    \cup { Script("ok", Raises, g) : g \in GenOutcomes }
    \cup { Script(po, NotCalled, g) : po \in PromptOutcomes \ {"ok"}, g \in GenOutcomes }
\* str.strip() on the texts of the model
Strip(text) == IF text = "  " THEN "" ELSE text

\* the calls of one responder execution, as the node observed them: whether
\* get_prompt gave a usable prompt, and what the primary and the fallback
\* generate_response call did ("return", "raise" or "not_called")
GenCalls(po, g1, g2) ==
    [prompt |-> (po = "ok"), primary |-> g1.kind, fallback |-> g2.kind]
NoCalls == [prompt |-> FALSE, primary |-> "not_called", fallback |-> "not_called"]
\* the number of generate_response calls in a call record
CallCount(c) ==
    (IF c.primary = "not_called" THEN 0 ELSE 1)
    + (IF c.fallback = "not_called" THEN 0 ELSE 1)
\* the scripts in which get_prompt and every generate_response call raise
FailingScripts ==
    { c \in Scripts : c.po = "raise" /\ c.g1.kind # "return" /\ c.g2.kind # "return" }

\* the response generation block without the handler of the fallback call and
\* without the "Ensure response is valid" test: what is not a str is recorded
\* as the empty text
GenerateResponse_Unvalidated(po, g1, g2, unavailable, noresp) ==
    LET primaryFailed == po # "ok" \/ g1.kind = "raise"
        response == IF ~primaryFailed THEN g1.value
                    ELSE IF g2.kind = "raise" THEN NoneV
                    ELSE g2.value
    IN IF response.type = "str" THEN response.text ELSE ""

\* the response generation block giving up after the primary attempt: the
\* degraded text is recorded without regard to the fallback call
GenerateResponse_GivesUpEarly(po, g1, g2, unavailable, noresp) ==
    LET primaryFailed == po # "ok" \/ g1.kind = "raise"
        response == IF ~primaryFailed THEN g1.value ELSE TextV(unavailable)
    IN IF response.type = "str" /\ response.text # "" THEN response.text
       ELSE noresp

\* The response generation block shared by the responder nodes (in
\* _weather_agent_node: response = None ... "Ensure response is valid"):
\* po is the outcome of get_prompt, g1 of the primary generate_response call,
\* g2 of the fallback call. The query interpolated into the degraded texts is
\* left out of the text tokens.
GenerateResponse(po, g1, g2, unavailable, noresp) ==
    LET primaryFailed == po # "ok" \/ g1.kind = "raise"
        response == IF ~primaryFailed THEN g1.value
                    ELSE IF g2.kind = "raise" THEN TextV(unavailable)
                    ELSE g2.value
    IN IF response.type = "str" /\ response.text # "" THEN response.text
       ELSE noresp

\* execution_path.append({...})
PathEntry(agent, action, now) ==
    [agent |-> agent, action |-> action, timestamp |-> now]

\* What a node hands back: the updated state and the exchange it asked
\* _store_agent_interaction to persist (NoStore when it did not call it).
NoStore == [agent |-> "none"]
Exchange(agent, question, response) ==
    [agent |-> agent, question |-> question, response |-> response]
NodeResult(s, stored, calls) == [state |-> s, stored |-> stored, calls |-> calls]

\* the local `question` of a responder: state.get("question", "") with the
\* replacement of an empty one
LocalQuestion(s, general) ==
    LET question == Get(s, "question", Str(<<>>)) IN
    IF question.type = "none" \/ question.chars = <<>> THEN general ELSE question

\* bool(x) of a slot value read with state.get(slot, {})
Bool(v) == v.type # "none" /\ DOMAIN v # {"type"}
\* x.get(key, default) on a dict
DictGet(v, key, default) == IF key \in DOMAIN v THEN v[key] ELSE default

\* the tail of a responder node also writing its answer to `response`
Completed_WritesResponse(s, agent, slot, data, response, action, question, now, calls) ==
    LET s1 == Set(s, "current_agent", agent)
        s2 == Set(s1, slot, data)
        s3 == Set(s2, "agent_responses",
                  Put(Get(s, "agent_responses", <<>>), agent, response))
        s4 == Set(s3, "execution_path",
                  Append(Get(s, "execution_path", <<>>), PathEntry(agent, action, now)))
        s5 == Set(s4, "response", <<[part |-> "text", a |-> response, b |-> ""]>>)
    IN NodeResult(s5, Exchange(agent, question, response), calls)

\* the tail of a responder node also adding its exchange to the context
Completed_RefreshesContext(s, agent, slot, data, response, action, question, now, calls) ==
    LET s1 == Set(s, "current_agent", agent)
        s2 == Set(s1, slot, data)
        s3 == Set(s2, "agent_responses",
                  Put(Get(s, "agent_responses", <<>>), agent, response))
        s4 == Set(s3, "execution_path",
                  Append(Get(s, "execution_path", <<>>), PathEntry(agent, action, now)))
        s5 == Set(s4, "context",
                  [stm |-> [type |-> "dict",
                            recent_interactions |-> <<[k |-> agent, v |-> response]>>,
                            count |-> 1],
                   ltm |-> EmptyDict])
    IN NodeResult(s5, Exchange(agent, question, response), calls)

\* The tail shared by the normal paths of the responder nodes: "Update
\* state" to "return updated_state".
Completed(s, agent, slot, data, response, action, question, now, calls) ==
    LET s1 == Set(s, "current_agent", agent)
        s2 == Set(s1, slot, data)
        s3 == Set(s2, "agent_responses",
                  Put(Get(s, "agent_responses", <<>>), agent, response))
        s4 == Set(s3, "execution_path",
                  Append(Get(s, "execution_path", <<>>), PathEntry(agent, action, now)))
    IN NodeResult(s4, Exchange(agent, question, response), calls)

\* the except branch of a responder node without the agent_responses entry
Failed_NoAnswer(s, agent, text, calls) ==
    NodeResult(Set(s, "current_agent", agent), NoStore, calls)

\* the except branch of a responder node starting agent_responses afresh
Failed_DropsEarlier(s, agent, text, calls) ==
    LET s1 == Set(s, "current_agent", agent)
        s2 == Set(s1, "agent_responses", <<[k |-> agent, v |-> text]>>)
    IN NodeResult(s2, NoStore, calls)

\* The `except Exception as e` branch of a responder node.
Failed(s, agent, text, calls) ==
    LET s1 == Set(s, "current_agent", agent)
        s2 == Set(s1, "agent_responses",
                  Put(Get(s, "agent_responses", <<>>), agent, text))
    IN NodeResult(s2, NoStore, calls)

\* _weather_agent_node
WeatherAgentNode(s, po, g1, g2, now) ==
    LET question == LocalQuestion(s, GeneralWeatherInquiry)
        location_data == Get(s, "location_data", EmptyDict)
        response == GenerateResponse(po, g1, g2,
            "Weather information is currently unavailable due to technical issues.",
            "Weather agent processed query, but no response was generated.")
        weather_data ==
            [type |-> "dict", forecast |-> response,
             location |-> IF IsDict(location_data)
                          THEN DictGet(location_data, "location", "") ELSE "",
             analysis_time |-> now]
    IN Completed(s, "WeatherAgent", "weather_data", weather_data, response,
                 "Provided weather analysis", question, now, GenCalls(po, g1, g2))

\* _dining_agent_node: building dining_data calls location_data.get without
\* the isinstance test, which raises AttributeError unless location_data is a
\* dict; the exception lands in the node's except branch.
DiningAgentNode(s, po, g1, g2, now) ==
    LET question == LocalQuestion(s, GeneralDiningInquiry)
        location_data == Get(s, "location_data", EmptyDict)
        weather_data == Get(s, "weather_data", EmptyDict)
        response == GenerateResponse(po, g1, g2,
            "Dining recommendations are currently unavailable due to technical issues.",
            "Dining agent processed query, but no response was generated.")
    IN IF ~IsDict(location_data)
       THEN Failed(s, "DiningAgent",
                   "Dining recommendations currently unavailable: AttributeError",
                   GenCalls(po, g1, g2))
       ELSE Completed(s, "DiningAgent", "dining_data",
                [type |-> "dict", recommendations |-> response,
                 location |-> DictGet(location_data, "location", ""),
                 weather_considered |-> Bool(weather_data),
                 analysis_time |-> now],
                response, "Provided dining recommendations", question, now,
                GenCalls(po, g1, g2))

\* _scenic_agent_node
ScenicAgentNode(s, po, g1, g2, now) ==
    LET question == LocalQuestion(s, GeneralLocationInquiry)
        weather_data == Get(s, "weather_data", EmptyDict)
        dining_data == Get(s, "dining_data", EmptyDict)
        response == GenerateResponse(po, g1, g2,
            "Scenic location recommendations are currently unavailable due to technical issues.",
            "Scenic location agent processed query, but no response was generated.")
    IN Completed(s, "ScenicLocationFinderAgent", "location_data",
            [type |-> "dict", recommendations |-> response,
             weather_integrated |-> Bool(weather_data),
             dining_integrated |-> Bool(dining_data),
             analysis_time |-> now],
            response, "Provided location recommendations", question, now,
            GenCalls(po, g1, g2))

\* _forest_agent_node writing its findings to the location slot
ForestAgentNode_WritesLocationSlot(s, po, g1, g2, now) ==
    LET question == LocalQuestion(s, GeneralForestInquiry)
        location_data == Get(s, "location_data", EmptyDict)
        weather_data == Get(s, "weather_data", EmptyDict)
        response == GenerateResponse(po, g1, g2,
            "Forest analysis is currently unavailable due to technical issues.",
            "Forest agent processed query, but no response was generated.")
    IN Completed(s, "ForestAnalyzerAgent", "location_data",
            [type |-> "dict", analysis |-> response,
             location_considered |-> Bool(location_data),
             weather_considered |-> Bool(weather_data),
             analysis_time |-> now],
            response, "Provided forest ecosystem analysis", question, now,
            GenCalls(po, g1, g2))

\* _forest_agent_node
ForestAgentNode(s, po, g1, g2, now) ==
    LET question == LocalQuestion(s, GeneralForestInquiry)
        location_data == Get(s, "location_data", EmptyDict)
        weather_data == Get(s, "weather_data", EmptyDict)
        response == GenerateResponse(po, g1, g2,
            "Forest analysis is currently unavailable due to technical issues.",
            "Forest agent processed query, but no response was generated.")
    IN Completed(s, "ForestAnalyzerAgent", "forest_data",
            [type |-> "dict", analysis |-> response,
             location_considered |-> Bool(location_data),
             weather_considered |-> Bool(weather_data),
             analysis_time |-> now],
            response, "Provided forest ecosystem analysis", question, now,
            GenCalls(po, g1, g2))

\* ------------------------------------------------------------ memory store
\* core.memory.MemoryManager: a short-term cache keyed by (user, agent) and an
\* append-only long-term log. stm maps str(user_id) to the user's entries
\* (a dict agent -> value), ltm is the log.
UidStr(user_id) == IF user_id.type = "none" THEN "None" ELSE user_id.str
UserIds == {[type |-> "int", str |-> "1"]}
UidStrs == {"1", "None"}
EmptyStm == [u \in UidStrs |-> <<>>]
\* get_all_stm_for_user
GetAllStmForUser(cache, uid) == cache[uid]
\* get_recent_ltm
RECURSIVE GetRecentLtm(_, _)
GetRecentLtm(log, uid) ==
    IF Len(log) = 0 THEN <<>>
    ELSE IF log[1].user = uid THEN <<log[1]>> \o GetRecentLtm(Tail(log), uid)
    ELSE GetRecentLtm(Tail(log), uid)
\* set_stm
SetStm(cache, uid, agent, value) ==
    [cache EXCEPT ![uid] = Put(@, agent, value)]
\* set_ltm
SetLtm(log, uid, agent, value) ==
    Append(log, [user |-> uid, agent |-> agent, value |-> value])

\* what one memory call can do
MemOutcomes == {"ok", "fail"}
\* what the two writes of _store_agent_interaction can do: both succeed, the
\* cache write raises, the log write raises
StoreOutcomes == {"ok", "stm_fail", "ltm_fail"}

\* _store_agent_interaction without the set_stm call
StoreAgentInteraction_SkipsCache(mem, user_id, ex, so) ==
    IF ex = NoStore \/ so # "ok" THEN mem
    ELSE [mem EXCEPT !.ltm = SetLtm(mem.ltm, UidStr(user_id), ex.agent,
                                    [fmt |-> "Query/Response", q |-> ex.question,
                                     a |-> ex.response])]

\* _store_agent_interaction: the memory store after it; set_ltm is not
\* reached when set_stm raised
StoreAgentInteraction(mem, user_id, ex, so) ==
    IF ex = NoStore \/ so = "stm_fail" THEN mem
    ELSE LET cache == SetStm(mem.stm, UidStr(user_id), ex.agent,
                             [fmt |-> "Q/A", q |-> ex.question, a |-> ex.response])
         IN IF so = "ltm_fail" THEN [mem EXCEPT !.stm = cache]
            ELSE [stm |-> cache,
                  ltm |-> SetLtm(mem.ltm, UidStr(user_id), ex.agent,
                                 [fmt |-> "Query/Response", q |-> ex.question,
                                  a |-> ex.response])]

\* _get_stm_context handing back None when the cache cannot be read
GetStmContext_ReturnsNone(mem, user_id, mo) ==
    IF mo = "fail" THEN NoneV
    ELSE LET stm_data == GetAllStmForUser(mem.stm, UidStr(user_id)) IN
         [type |-> "dict", recent_interactions |-> stm_data, count |-> Len(stm_data)]
\* _get_stm_context
GetStmContext(mem, user_id, mo) ==
    IF mo = "fail" THEN EmptyDict
    ELSE LET stm_data == GetAllStmForUser(mem.stm, UidStr(user_id)) IN
         [type |-> "dict", recent_interactions |-> stm_data, count |-> Len(stm_data)]
\* _get_ltm_context
GetLtmContext(mem, user_id, mo) ==
    IF mo = "fail" THEN EmptyDict
    ELSE LET ltm_data == GetRecentLtm(mem.ltm, UidStr(user_id)) IN
         [type |-> "dict",
          recent_history |-> SubSeq(ltm_data, 1, IF Len(ltm_data) < 10 THEN Len(ltm_data) ELSE 10),
          count |-> Len(ltm_data)]

\* _perform_memory_search. The stored contents are matched by the question
\* they hold; the answer part of a stored value is a text token of the model
\* and is not searched.
PerformMemorySearch(mem, query, user_id, mo) ==
    IF mo = "fail"
    THEN [type |-> "dict", query |-> query, matches |-> <<>>, total_found |-> 0,
          error |-> "memory error"]
    ELSE LET stm_data == GetAllStmForUser(mem.stm, UidStr(user_id))
             ltm_data == GetRecentLtm(mem.ltm, UidStr(user_id))
             query_lower == Lower(query.chars)
             hit(value) == IsSubstring(query_lower, Lower(value.q.chars))
             stmHits == SelectSeq(stm_data, LAMBDA e : hit(e.v))
             ltmHits == SelectSeq(ltm_data, LAMBDA e : hit(e.value))
             n == Len(stmHits) + Len(ltmHits)
         IN [type |-> "dict", query |-> query,
             matches |-> [i \in 1..Len(stmHits) |-> [source |-> "stm", agent |-> stmHits[i].k]]
                         \o [i \in 1..Len(ltmHits) |-> [source |-> "ltm", agent |-> ltmHits[i].agent]],
             total_found |-> n]

\* _search_agent_node
SearchAgentNode(s, mem, mo, po, g1, g2, now) ==
    LET question == LocalQuestion(s, GeneralSearchInquiry)
        user_id == Get(s, "user_id", [type |-> "int", str |-> "0"])
        search_results == PerformMemorySearch(mem, question, user_id, mo)
        response == GenerateResponse(po, g1, g2,
            "Search analysis is currently unavailable due to technical issues.",
            "Search agent processed query, but no response was generated.")
    IN Completed(s, "SearchAgent", "search_results", search_results, response,
                 "Performed memory search and analysis", question, now,
                 GenCalls(po, g1, g2))

\* -------------------------------------------------------------- RouterAgent
\* _router_agent_node rejecting an empty question with an exception
RouterAgentNode_RaisesOnEmpty(s, now) ==
    LET question == Get(s, "question", Str(<<>>)) IN
    IF ~IsStr(question) \/ question.chars = <<>> THEN [raised |-> TRUE, state |-> s]
    ELSE
    LET routing_decision == AnalyzeQueryForRouting(question.chars)
        s1 == Set(s, "current_agent", "RouterAgent")
        s2 == Set(s1, "routing_decision", routing_decision)
        s3 == Set(s2, "agent_chain",
                  IF routing_decision # "synthesize" THEN <<routing_decision>> ELSE <<>>)
        s4 == Set(s3, "edges_traversed",
                  Get(s, "edges_traversed", <<>>) \o <<"RouterAgent">>)
        s5 == Set(s4, "execution_path",
                  Append(Get(s, "execution_path", <<>>),
                         PathEntry("RouterAgent", "Routed query to " \o routing_decision, now)))
    IN [raised |-> FALSE, state |-> s5]

\* _router_agent_node storing the lower-cased question it analysed
RouterUpdate_NormalisesQuestion(s, now, routing_decision) ==
    LET s0 == Set(s, "question", Str(Lower(Get(s, "question", Str(<<>>)).chars)))
        s1 == Set(s0, "current_agent", "RouterAgent")
        s2 == Set(s1, "routing_decision", routing_decision)
        s3 == Set(s2, "agent_chain",
                  IF routing_decision # "synthesize" THEN <<routing_decision>> ELSE <<>>)
        s4 == Set(s3, "edges_traversed",
                  Get(s, "edges_traversed", <<>>) \o <<"RouterAgent">>)
    IN Set(s4, "execution_path",
           Append(Get(s, "execution_path", <<>>),
                  PathEntry("RouterAgent", "Routed query to " \o routing_decision, now)))

\* _router_agent_node from "Update state" on, routing_decision being what
\* _analyze_query_for_routing returned
RouterUpdate(s, now, routing_decision) ==
    LET s1 == Set(s, "current_agent", "RouterAgent")
        s2 == Set(s1, "routing_decision", routing_decision)
        s3 == Set(s2, "agent_chain",
                  IF routing_decision # "synthesize" THEN <<routing_decision>> ELSE <<>>)
        s4 == Set(s3, "edges_traversed",
                  Get(s, "edges_traversed", <<>>) \o <<"RouterAgent">>)
    IN Set(s4, "execution_path",
           Append(Get(s, "execution_path", <<>>),
                  PathEntry("RouterAgent", "Routed query to " \o routing_decision, now)))

\* _router_agent_node classifying the requests of an anonymous requester as
\* memory searches
RouterAgentNode_RoutesByRequester(s, now) ==
    LET question == Get(s, "question", Str(<<>>)) IN
    IF ~IsStr(question) THEN [raised |-> TRUE, state |-> s]
    ELSE [raised |-> FALSE,
          state |-> RouterUpdate(s, now,
                                 IF Get(s, "user_id", NoneV) = NoneV THEN "search"
                                 ELSE AnalyzeQueryForRouting(question.chars))]

\* _router_agent_node: question.lower() raises when the question is not a
\* str, and the node has no handler, so the exception leaves the graph run.
RouterAgentNode(s, now) ==
    LET question == Get(s, "question", Str(<<>>)) IN
    IF ~IsStr(question) THEN [raised |-> TRUE, state |-> s]
    ELSE [raised |-> FALSE,
          state |-> RouterUpdate(s, now, AnalyzeQueryForRouting(question.chars))]

\* ------------------------------------------------------ ResponseSynthesizer
\* The final response is "\n".join(response_parts); it is modelled as the
\* sequence of its parts, the empty string being the empty sequence.
Part(kind, a, b) == [part |-> kind, a |-> a, b |-> b]
Sentinel == <<Part("text", "No agent responses to synthesize.", "")>>
\* agent_order listing ForestAnalyzerAgent before ScenicLocationFinderAgent
agent_order_ForestFirst ==
    <<"WeatherAgent", "DiningAgent", "ForestAnalyzerAgent",
      "ScenicLocationFinderAgent", "SearchAgent">>
\* agent_order of _response_synthesizer_node
agent_order ==
    <<"WeatherAgent", "DiningAgent", "ScenicLocationFinderAgent",
      "ForestAnalyzerAgent", "SearchAgent">>
\* agent_id.replace("Agent", "").replace("Finder", "")
AgentName(agent_id) ==
    CASE agent_id = "WeatherAgent" -> "Weather"
      [] agent_id = "DiningAgent" -> "Dining"
      [] agent_id = "ScenicLocationFinderAgent" -> "ScenicLocation"
      [] agent_id = "ForestAnalyzerAgent" -> "ForestAnalyzer"
      [] agent_id = "SearchAgent" -> "Search"
\* the parts one agent contributes
Contribution(agent_responses, agent_id) ==
    IF Has(agent_responses, agent_id)
       /\ Strip(ValueOf(agent_responses, agent_id)) # ""
    THEN <<Part("heading", AgentName(agent_id), ""),
           Part("text", Strip(ValueOf(agent_responses, agent_id)), ""),
           Part("blank", "", "")>>
    ELSE <<>>
RECURSIVE Contributions(_, _)
Contributions(agent_responses, i) ==
    IF i > Len(agent_order) THEN <<>>
    ELSE Contribution(agent_responses, agent_order[i])
         \o Contributions(agent_responses, i + 1)
\* the "Execution Path" trailer
Trailer(execution_path) ==
    IF Len(execution_path) = 0 THEN <<>>
    ELSE <<Part("trailer", "Execution Path:", "")>>
         \o [i \in 1..Len(execution_path) |->
                Part("step", execution_path[i].agent, execution_path[i].action)]

\* _response_synthesizer_node starting the execution path afresh with its
\* own entry
ResponseSynthesizerNode_RestartsPath(s, now) ==
    LET agent_responses == Get(s, "agent_responses", <<>>) IN
    IF Len(agent_responses) = 0
    THEN Set(Set(s, "final_response", Sentinel), "response", Sentinel)
    ELSE
    LET execution_path == Get(s, "execution_path", <<>>)
        final_response ==
            <<Part("header", "Multiagent Analysis Results", "")>>
            \o Contributions(agent_responses, 1)
            \o Trailer(execution_path)
        s1 == Set(s, "current_agent", "ResponseSynthesizer")
        s2 == Set(s1, "final_response", final_response)
        s3 == Set(s2, "response", final_response)
    IN Set(s3, "execution_path",
           <<PathEntry("ResponseSynthesizer",
                       "Synthesized " \o ToString(Len(agent_responses)) \o " agent responses",
                       now)>>)

\* _response_synthesizer_node recording its execution also when it has
\* nothing to synthesize
ResponseSynthesizerNode_SentinelTraced(s, now) ==
    LET agent_responses == Get(s, "agent_responses", <<>>)
        execution_path == Get(s, "execution_path", <<>>)
        final_response ==
            IF Len(agent_responses) = 0 THEN Sentinel
            ELSE <<Part("header", "Multiagent Analysis Results", "")>>
                 \o Contributions(agent_responses, 1)
                 \o Trailer(execution_path)
        s1 == Set(s, "current_agent", "ResponseSynthesizer")
        s2 == Set(s1, "final_response", final_response)
        s3 == Set(s2, "response", final_response)
    IN Set(s3, "execution_path",
           Append(execution_path,
                  PathEntry("ResponseSynthesizer",
                            "Synthesized " \o ToString(Len(agent_responses)) \o " agent responses",
                            now)))

\* _response_synthesizer_node writing the trailer after it has appended its
\* own entry to the execution path
ResponseSynthesizerNode_TrailerAfterOwnEntry(s, now) ==
    LET agent_responses == Get(s, "agent_responses", <<>>) IN
    IF Len(agent_responses) = 0
    THEN Set(Set(s, "final_response", Sentinel), "response", Sentinel)
    ELSE
    LET execution_path ==
            Append(Get(s, "execution_path", <<>>),
                   PathEntry("ResponseSynthesizer",
                             "Synthesized " \o ToString(Len(agent_responses)) \o " agent responses",
                             now))
        final_response ==
            <<Part("header", "Multiagent Analysis Results", "")>>
            \o Contributions(agent_responses, 1)
            \o Trailer(execution_path)
        s1 == Set(s, "current_agent", "ResponseSynthesizer")
        s2 == Set(s1, "final_response", final_response)
        s3 == Set(s2, "response", final_response)
    IN Set(s3, "execution_path", execution_path)

\* _response_synthesizer_node
ResponseSynthesizerNode(s, now) ==
    LET agent_responses == Get(s, "agent_responses", <<>>) IN
    IF Len(agent_responses) = 0
    THEN Set(Set(s, "final_response", Sentinel), "response", Sentinel)
    ELSE
    LET execution_path == Get(s, "execution_path", <<>>)
        final_response ==
            <<Part("header", "Multiagent Analysis Results", "")>>
            \o Contributions(agent_responses, 1)
            \o Trailer(execution_path)
        s1 == Set(s, "current_agent", "ResponseSynthesizer")
        s2 == Set(s1, "final_response", final_response)
        s3 == Set(s2, "response", final_response)
    IN Set(s3, "execution_path",
           Append(execution_path,
                  PathEntry("ResponseSynthesizer",
                            "Synthesized " \o ToString(Len(agent_responses)) \o " agent responses",
                            now)))

\* ---------------------------------------------------------- process_request
\* initial_state of process_request
InitialState(user, user_id, question, stm_context, ltm_context, now) ==
    [present |-> StateKeys,
     user |-> user, user_id |-> user_id, question |-> question,
     current_agent |-> "", next_agent |-> NoneV, agent_chain |-> <<>>,
     routing_decision |-> "", response |-> <<>>, agent_responses |-> <<>>,
     final_response |-> <<>>,
     context |-> [stm |-> stm_context, ltm |-> ltm_context],
     memory |-> [interactions |-> <<>>, agent_data |-> EmptyDict],
     shared_data |-> EmptyDict, edges_traversed |-> <<>>,
     execution_path |-> <<>>, timestamp |-> now,
     weather_data |-> NoneV, dining_data |-> NoneV, location_data |-> NoneV,
     forest_data |-> NoneV, search_results |-> NoneV]

\* the dict process_request returns after graph.invoke
Envelope(final_state) ==
    [user |-> Get(final_state, "user", NoneV),
     user_id |-> Get(final_state, "user_id", NoneV),
     question |-> Get(final_state, "question", NoneV),
     agent |-> Get(final_state, "current_agent", ""),
     response |-> Get(final_state, "final_response", Get(final_state, "response", <<>>)),
     agent_responses |-> Get(final_state, "agent_responses", <<>>),
     execution_path |-> Get(final_state, "execution_path", <<>>),
     edges_traversed |-> Get(final_state, "edges_traversed", <<>>),
     context |-> Get(final_state, "context", EmptyDict),
     timestamp |-> Get(final_state, "timestamp", 0),
     system_version |-> "2.0.0-multiagent",
     agents_involved |-> KeyList(Get(final_state, "agent_responses", <<>>))]

\* the dict the except branch of process_request returns
ErrorEnvelope(user, user_id, question, now) ==
    [user |-> user, user_id |-> user_id, question |-> question,
     agent |-> "ErrorHandler",
     response |-> <<Part("text", "Multiagent system error", "")>>,
     error |-> TRUE, timestamp |-> now]

\* ------------------------------------------------------------ specification
VARIABLES
    node,           \* where the request is: IDLE, the graph node to run next,
                    \* END, RAISED (an exception is leaving graph.invoke), RETURNED
    state,          \* the MultiAgentState of the graph run
    req,            \* the arguments of the process_request call
    result,         \* what process_request returned
    mem,            \* the memory store: [stm, ltm]
    graph,          \* self.graph is built (for LangGraphFramework: its attributes)
    route_history,  \* the graph nodes executed, in order
    calls,          \* the calls made by the node that executed last
    generation_down, \* the generation service and the prompt manager fail
                    \* on every call of the request
    memory_mode,    \* which parts of the memory store fail during the request
    clock,          \* datetime.now(), one tick per step
    other           \* the locals of a second process_request call running
                    \* on the same instance while it is not scheduled

vars == <<node, state, req, result, mem, graph, route_history, calls, memory_mode, generation_down, clock, other>>

\* no second call is running
NoThread == [tid |-> "none"]

\* The memory store during one request: working, unreachable, or with only
\* the cache or only the log failing.
MemoryModes == {"up", "down", "stm_down", "ltm_down"}
StmOutcome(mode) == IF mode \in {"down", "stm_down"} THEN "fail" ELSE "ok"
LtmOutcome(mode) == IF mode \in {"down", "ltm_down"} THEN "fail" ELSE "ok"
SearchOutcome(mode) == IF mode = "up" THEN "ok" ELSE "fail"
StoreOutcome(mode) ==
    IF mode \in {"down", "stm_down"} THEN "stm_fail"
    ELSE IF mode = "ltm_down" THEN "ltm_fail" ELSE "ok"

\* the call scripts a responder can meet in a request
ScriptsOf(down) == IF down THEN FailingScripts ELSE Scripts

\* the nodes added in build_langgraph
GraphNodes == {"RouterAgent", "ResponseSynthesizer"} \cup Agents
\* graph node n is the one to run, within the steps the model follows
CanRun(n) == node = n /\ clock < MaxSteps

NoRequest == [user |-> "", user_id |-> NoneV, question |-> NoneV]
NoState ==
    [InitialState("", NoneV, NoneV, EmptyDict, EmptyDict, 0) EXCEPT !.present = {}]

Init ==
    /\ node = "IDLE"
    /\ state = NoState
    /\ req = NoRequest
    /\ result = NoneV
    /\ mem = [stm |-> EmptyStm, ltm |-> <<>>]
    /\ graph = FALSE
    /\ route_history = <<>>
    /\ calls = NoCalls
    /\ generation_down = FALSE
    /\ memory_mode = "up"
    /\ clock = 0
    /\ other = NoThread

\* process_request up to graph.invoke: build the graph if needed, load the
\* two contexts, build the initial state
ProcessRequest ==
    /\ node = "IDLE"
    /\ \E user_id \in UserIds, question \in Questions \cup {NoneV},
          mode \in MemoryModes, down \in BOOLEAN :
        /\ memory_mode' = mode
        /\ generation_down' = down
        /\ req' = [user |-> "test_user", user_id |-> user_id, question |-> question]
        /\ state' = InitialState("test_user", user_id, question,
                                 GetStmContext(mem, user_id, StmOutcome(mode)),
                                 GetLtmContext(mem, user_id, LtmOutcome(mode)), clock)
    /\ graph' = TRUE
    /\ node' = "RouterAgent"
    /\ clock' = clock + 1
    /\ UNCHANGED <<result, mem, route_history, calls, other>>

\* the RouterAgent node and its conditional edge
RouterAgent ==
    /\ CanRun("RouterAgent")
    /\ LET r == RouterAgentNode(state, clock) IN
        /\ state' = r.state
        /\ node' = IF r.raised THEN "RAISED" ELSE EdgeMap(RouteFromRouter(r.state))
    /\ calls' = NoCalls
    /\ route_history' = Append(route_history, "RouterAgent")
    /\ clock' = clock + 1
    /\ UNCHANGED <<req, result, mem, graph, memory_mode, generation_down, other>>

\* what a responder node leaves behind, followed by its conditional edge,
\* `label` being what _route_to_next_agent returned
ResponderTo(agent, r, label) ==
    /\ CanRun(agent)
    /\ state' = r.state
    /\ mem' = StoreAgentInteraction(mem, Get(state, "user_id", [type |-> "int", str |-> "0"]),
                                    r.stored, StoreOutcome(memory_mode))
    /\ calls' = r.calls
    /\ node' = EdgeMap(label)
    /\ route_history' = Append(route_history, agent)
    /\ clock' = clock + 1
    /\ UNCHANGED <<req, result, graph, memory_mode, generation_down, other>>

\* the conditional edge of a responder leading to the synthesizer as soon as
\* the responder's fallback generation call raised
Responder_StopsAfterFailure(agent, r) ==
    ResponderTo(agent, r, IF r.calls.fallback = "raise" THEN "synthesize"
                          ELSE RouteToNextAgent(r.state))

Responder(agent, r) == ResponderTo(agent, r, RouteToNextAgent(r.state))

WeatherAgent ==
    \E c \in ScriptsOf(generation_down) :
        Responder("WeatherAgent", WeatherAgentNode(state, c.po, c.g1, c.g2, clock))

DiningAgent ==
    \E c \in ScriptsOf(generation_down) :
        Responder("DiningAgent", DiningAgentNode(state, c.po, c.g1, c.g2, clock))

ScenicLocationFinderAgent ==
    \E c \in ScriptsOf(generation_down) :
        Responder("ScenicLocationFinderAgent", ScenicAgentNode(state, c.po, c.g1, c.g2, clock))

ForestAnalyzerAgent ==
    \E c \in ScriptsOf(generation_down) :
        Responder("ForestAnalyzerAgent", ForestAgentNode(state, c.po, c.g1, c.g2, clock))

SearchAgent ==
    \E c \in ScriptsOf(generation_down) :
        Responder("SearchAgent",
                  SearchAgentNode(state, mem, SearchOutcome(memory_mode),
                                  c.po, c.g1, c.g2, clock))

\* the ResponseSynthesizer node and its edge to END
ResponseSynthesizer ==
    /\ CanRun("ResponseSynthesizer")
    /\ state' = ResponseSynthesizerNode(state, clock)
    /\ node' = "END"
    /\ calls' = NoCalls
    /\ route_history' = Append(route_history, "ResponseSynthesizer")
    /\ clock' = clock + 1
    /\ UNCHANGED <<req, result, mem, graph, memory_mode, generation_down, other>>

\* process_request after graph.invoke returned
Return ==
    /\ node = "END"
    /\ result' = Envelope(state)
    /\ node' = "RETURNED"
    /\ UNCHANGED <<state, req, mem, graph, route_history, calls, memory_mode, generation_down, clock, other>>

\* the except branch of process_request
ReturnError ==
    /\ node = "RAISED"
    /\ result' = ErrorEnvelope(req.user, req.user_id, req.question, clock)
    /\ node' = "RETURNED"
    /\ UNCHANGED <<state, req, mem, graph, route_history, calls, memory_mode, generation_down, clock, other>>

Next ==
    \/ ProcessRequest
    \/ RouterAgent
    \/ WeatherAgent
    \/ DiningAgent
    \/ ScenicLocationFinderAgent
    \/ ForestAnalyzerAgent
    \/ SearchAgent
    \/ ResponseSynthesizer
    \/ Return
    \/ ReturnError

Spec == Init /\ [][Next]_vars

\* ------------------------------------------- responder nodes called directly
\* The responder nodes called as functions on a state, as test_state_validation
\* calls them: on a state holding only question and user_id, on such a state
\* with earlier answers, and on the state process_request builds, with
\* location_data None or left by ScenicLocationFinderAgent.
NodeQuestions == {NoneV, Str(<<>>), Str(Vocabulary[1])}
EarlierAnswers ==
    {<<>>,
     <<[k |-> "WeatherAgent", v |-> "Earlier weather answer."]>>,
     <<[k |-> "DiningAgent", v |-> "Earlier dining answer."],
       [k |-> "SearchAgent", v |-> "Earlier search answer."]>>}
\* MultiAgentState(question=..., user_id=1), with agent_responses when there
\* are earlier answers
MinimalState(question, earlier) ==
    [NoState EXCEPT !.present = {"question", "user_id"} \cup
                                (IF earlier = <<>> THEN {} ELSE {"agent_responses"}),
                    !.question = question,
                    !.user_id = [type |-> "int", str |-> "1"],
                    !.agent_responses = earlier]
\* the initial_state of process_request, with earlier answers
FullState(question, earlier, location_data) ==
    [InitialState("test_user", [type |-> "int", str |-> "1"], question,
                  EmptyDict, EmptyDict, 0)
        EXCEPT !.agent_responses = earlier, !.location_data = location_data]
NodeStates ==
    { MinimalState(q, e) : q \in NodeQuestions, e \in EarlierAnswers }
    \cup { FullState(q, e, l) : q \in NodeQuestions, e \in EarlierAnswers,
                                l \in {NoneV, [type |-> "dict", location |-> "found"]} }

InitNode ==
    /\ node = "CALL"
    /\ state \in NodeStates
    /\ req = NoRequest
    /\ result = NoneV
    /\ mem = [stm |-> EmptyStm, ltm |-> <<>>]
    /\ graph = FALSE
    /\ route_history = <<>>
    /\ calls = NoCalls
    /\ memory_mode \in MemoryModes
    /\ generation_down \in BOOLEAN
    /\ clock = 0
    /\ other = NoThread

\* agent_func(minimal_state.copy())
CallNode(agent, r) ==
    /\ node = "CALL"
    /\ state' = r.state
    /\ mem' = StoreAgentInteraction(mem, Get(state, "user_id", [type |-> "int", str |-> "0"]),
                                    r.stored, StoreOutcome(memory_mode))
    /\ calls' = r.calls
    /\ node' = "CALLED"
    /\ route_history' = Append(route_history, agent)
    /\ clock' = clock + 1
    /\ UNCHANGED <<req, result, graph, memory_mode, generation_down, other>>

CallWeatherAgentNode ==
    \E c \in ScriptsOf(generation_down) :
        CallNode("WeatherAgent", WeatherAgentNode(state, c.po, c.g1, c.g2, clock))
CallDiningAgentNode ==
    \E c \in ScriptsOf(generation_down) :
        CallNode("DiningAgent", DiningAgentNode(state, c.po, c.g1, c.g2, clock))
CallScenicAgentNode ==
    \E c \in ScriptsOf(generation_down) :
        CallNode("ScenicLocationFinderAgent", ScenicAgentNode(state, c.po, c.g1, c.g2, clock))
CallForestAgentNode ==
    \E c \in ScriptsOf(generation_down) :
        CallNode("ForestAnalyzerAgent", ForestAgentNode(state, c.po, c.g1, c.g2, clock))
CallSearchAgentNode ==
    \E c \in ScriptsOf(generation_down) :
        CallNode("SearchAgent",
                 SearchAgentNode(state, mem, SearchOutcome(memory_mode),
                                 c.po, c.g1, c.g2, clock))

NextNode ==
    \/ CallWeatherAgentNode
    \/ CallDiningAgentNode
    \/ CallScenicAgentNode
    \/ CallForestAgentNode
    \/ CallSearchAgentNode

SpecNode == InitNode /\ [][NextNode]_vars

\* --------------------------------------- the synthesizer called directly
\* _response_synthesizer_node called as a function on the states the
\* responder nodes are called on, with and without earlier answers
CallResponseSynthesizerNode ==
    /\ node = "CALL"
    /\ state' = ResponseSynthesizerNode(state, clock)
    /\ node' = "CALLED"
    /\ route_history' = Append(route_history, "ResponseSynthesizer")
    /\ clock' = clock + 1
    /\ UNCHANGED <<req, result, mem, graph, calls, memory_mode, generation_down, other>>

NextSynthesizer == CallResponseSynthesizerNode

SpecSynthesizer == InitNode /\ [][NextSynthesizer]_vars

\* ------------------------------- responder nodes over OllamaClient itself
\* What one HTTP exchange of OllamaClient.generate_response can be: a reply
\* with a text, with a blank text or without the 'response' key, a timeout, a
\* requests.RequestException (no connection, HTTP error status, and a reply
\* that is not JSON with a requests that raises its own JSONDecodeError), or
\* another exception (a reply that is not JSON, with a requests that raises
\* ValueError). The text of a reply can itself be a JSON object: one with the
\* fields response and text, one with the field content, one with neither.
ClientOutcomes ==
    {"text", "blank", "no_key", "timeout", "request_exception", "other_exception",
     "json_response_text", "json_content", "json_other"}
\* the texts of the model that start with '{' and end with '}', with what
\* json.loads makes of them
JsonResponseText == "{\"response\": \"Unwrapped answer.\", \"text\": \"Other text.\"}"
JsonContent == "{\"content\": \"Unwrapped answer.\"}"
JsonOther == "{\"note\": \"Unwrapped answer.\"}"
JsonLoads(text) ==
    CASE text = JsonResponseText ->
            [response |-> "Unwrapped answer.", text |-> "Other text."]
      [] text = JsonContent -> [content |-> "Unwrapped answer."]
      [] text = JsonOther -> [note |-> "Unwrapped answer."]
\* OllamaClient.generate_response: it catches every exception and returns a
\* str in each case
OllamaGenerateResponse(outcome) ==
    CASE outcome = "text" -> Returns(TextV("Generated answer."))
      [] outcome = "blank" -> Returns(TextV("  "))
      [] outcome = "no_key" -> Returns(TextV("No response generated"))
      [] outcome = "timeout" -> Returns(TextV("Request timed out. Please try again."))
      [] outcome = "request_exception" ->
            Returns(TextV("Error generating response: RequestException"))
      [] outcome = "other_exception" -> Returns(TextV("An unexpected error occurred."))
      [] outcome = "json_response_text" -> Returns(TextV(JsonResponseText))
      [] outcome = "json_content" -> Returns(TextV(JsonContent))
      [] outcome = "json_other" -> Returns(TextV(JsonOther))
\* the call scripts of a responder execution with OllamaClient behind
\* generate_response
ClientScripts ==
    { Script("ok", OllamaGenerateResponse(o), NotCalled) : o \in ClientOutcomes }
    \cup { Script(po, NotCalled, OllamaGenerateResponse(o)) :
             po \in PromptOutcomes \ {"ok"}, o \in ClientOutcomes }

ClientWeatherAgentNode ==
    \E c \in ClientScripts :
        CallNode("WeatherAgent", WeatherAgentNode(state, c.po, c.g1, c.g2, clock))
ClientDiningAgentNode ==
    \E c \in ClientScripts :
        CallNode("DiningAgent", DiningAgentNode(state, c.po, c.g1, c.g2, clock))
ClientScenicAgentNode ==
    \E c \in ClientScripts :
        CallNode("ScenicLocationFinderAgent", ScenicAgentNode(state, c.po, c.g1, c.g2, clock))
ClientForestAgentNode ==
    \E c \in ClientScripts :
        CallNode("ForestAnalyzerAgent", ForestAgentNode(state, c.po, c.g1, c.g2, clock))
ClientSearchAgentNode ==
    \E c \in ClientScripts :
        CallNode("SearchAgent",
                 SearchAgentNode(state, mem, SearchOutcome(memory_mode),
                                 c.po, c.g1, c.g2, clock))

NextClient ==
    \/ ClientWeatherAgentNode
    \/ ClientDiningAgentNode
    \/ ClientScenicAgentNode
    \/ ClientForestAgentNode
    \/ ClientSearchAgentNode

SpecClient == InitNode /\ [][NextClient]_vars

\* ------------------------------------------- several requests, one store
\* process_request called again on the same system and memory store. The
\* questions lead to one responder each, but the last, which leads through
\* WeatherAgent and ScenicLocationFinderAgent.
SessionQuestions ==
    { Str(Vocabulary[i]) : i \in {1, 2, 3, 6, 8} }
    \cup {Str(JoinWords(<<Vocabulary[4], Vocabulary[8]>>))}
SessionUserIds == UserIds \cup {NoneV}
SessionMemoryModes == {"up", "down"}
\* the node executions of the shortest request
ShortestRun == 4

\* process_request, first or later call
SessionRequest ==
    /\ node \in {"IDLE", "RETURNED"}
    /\ clock + ShortestRun <= MaxSteps
    /\ \E user_id \in SessionUserIds, question \in SessionQuestions,
          mode \in SessionMemoryModes :
        /\ memory_mode' = mode
        /\ req' = [user |-> "test_user", user_id |-> user_id, question |-> question]
        /\ state' = InitialState("test_user", user_id, question,
                                 GetStmContext(mem, user_id, StmOutcome(mode)),
                                 GetLtmContext(mem, user_id, LtmOutcome(mode)), clock)
    /\ generation_down' = FALSE
    /\ graph' = TRUE
    /\ node' = "RouterAgent"
    /\ result' = NoneV
    /\ route_history' = <<>>
    /\ calls' = NoCalls
    /\ clock' = clock + 1
    /\ UNCHANGED <<mem, other>>

NextSession ==
    \/ SessionRequest
    \/ RouterAgent
    \/ WeatherAgent
    \/ DiningAgent
    \/ ScenicLocationFinderAgent
    \/ ForestAnalyzerAgent
    \/ SearchAgent
    \/ ResponseSynthesizer
    \/ Return

SpecSession == Init /\ [][NextSession]_vars

\* ------------------------------------------- requests under any keyword rules
\* One request in which the keyword lists are arbitrary: the router may
\* return any of its labels and each keyword test of the continuation policy
\* may succeed or fail; the outcomes are drawn anew at every node, which
\* covers every fixed assignment of keywords. A responder meets either a
\* working or a failing generation service.
RulesQuestions == {Str(<<>>), Str(Vocabulary[1])}
RulesMemoryModes == {"up", "down"}
RulesScripts ==
    FailingScripts
    \cup {Script("ok", Returns(TextV("Generated answer.")), NotCalled)}

RulesProcessRequest ==
    /\ node = "IDLE"
    /\ \E question \in RulesQuestions, mode \in RulesMemoryModes :
        /\ memory_mode' = mode
        /\ req' = [user |-> "test_user", user_id |-> [type |-> "int", str |-> "1"],
                   question |-> question]
        /\ state' = InitialState("test_user", [type |-> "int", str |-> "1"], question,
                                 GetStmContext(mem, [type |-> "int", str |-> "1"],
                                               StmOutcome(mode)),
                                 GetLtmContext(mem, [type |-> "int", str |-> "1"],
                                               LtmOutcome(mode)), clock)
    /\ graph' = TRUE
    /\ node' = "RouterAgent"
    /\ clock' = clock + 1
    /\ UNCHANGED <<result, mem, route_history, calls, generation_down, other>>

RulesRouterAgent ==
    /\ CanRun("RouterAgent")
    /\ \E routing_decision \in RouterLabels :
        LET s == RouterUpdate(state, clock, routing_decision) IN
        /\ state' = s
        /\ node' = EdgeMap(RouteFromRouter(s))
    /\ calls' = NoCalls
    /\ route_history' = Append(route_history, "RouterAgent")
    /\ clock' = clock + 1
    /\ UNCHANGED <<req, result, mem, graph, memory_mode, generation_down, other>>

RulesWeatherAgent ==
    \E c \in RulesScripts, hit \in RuleOutcomes :
        LET r == WeatherAgentNode(state, c.po, c.g1, c.g2, clock) IN
        ResponderTo("WeatherAgent", r, RouteToNextAgentUnder(r.state, hit))

RulesDiningAgent ==
    \E c \in RulesScripts, hit \in RuleOutcomes :
        LET r == DiningAgentNode(state, c.po, c.g1, c.g2, clock) IN
        ResponderTo("DiningAgent", r, RouteToNextAgentUnder(r.state, hit))

RulesScenicLocationFinderAgent ==
    \E c \in RulesScripts, hit \in RuleOutcomes :
        LET r == ScenicAgentNode(state, c.po, c.g1, c.g2, clock) IN
        ResponderTo("ScenicLocationFinderAgent", r, RouteToNextAgentUnder(r.state, hit))

RulesForestAnalyzerAgent ==
    \E c \in RulesScripts, hit \in RuleOutcomes :
        LET r == ForestAgentNode(state, c.po, c.g1, c.g2, clock) IN
        ResponderTo("ForestAnalyzerAgent", r, RouteToNextAgentUnder(r.state, hit))

RulesSearchAgent ==
    \E c \in RulesScripts, hit \in RuleOutcomes :
        LET r == SearchAgentNode(state, mem, SearchOutcome(memory_mode),
                                 c.po, c.g1, c.g2, clock) IN
        ResponderTo("SearchAgent", r, RouteToNextAgentUnder(r.state, hit))

NextRules ==
    \/ RulesProcessRequest
    \/ RulesRouterAgent
    \/ RulesWeatherAgent
    \/ RulesDiningAgent
    \/ RulesScenicLocationFinderAgent
    \/ RulesForestAnalyzerAgent
    \/ RulesSearchAgent
    \/ ResponseSynthesizer
    \/ Return

SpecRules == Init /\ [][NextRules]_vars

\* ------------------------------------------------ two concurrent requests
\* Two process_request calls running in two threads on the shared
\* langgraph_multiagent_system instance. The scheduled call owns node,
\* state, req, result, route_history and calls; `other` holds these locals of
\* the suspended call. The instance (graph), the memory store (mem) and the
\* time (clock) are shared. A call can be suspended between any two of its
\* steps: the lazy-build test, the build, each context load, and each graph
\* node (a node touches shared state only in its calls to the memory
\* manager, so a suspension during its generation calls is a suspension
\* before the node).
ConcQuestions ==
    { Str(Vocabulary[i]) : i \in {3, 6, 8} }
    \cup {Str(JoinWords(<<Vocabulary[4], Vocabulary[8]>>))}
ConcUserId == [type |-> "int", str |-> "1"]
ConcScripts == RulesScripts
\* the thread that is scheduled, and the user it serves
Scheduled == IF other.tid = "b" THEN "a" ELSE "b"
UserOf(tid) == IF tid = "a" THEN "user_a" ELSE "user_b"

\* process_request keeping the graph state in an attribute of the instance
\* instead of its local variables
FrameState_OnInstance(saved, shared) == shared
\* the graph state a resumed call goes on with: initial_state and final_state
\* are local variables of process_request, and graph.invoke keeps the state
\* of a run to that run
FrameState(saved, shared) == saved

InitConcurrent ==
    /\ node = "IDLE"
    /\ state = NoState
    /\ req = NoRequest
    /\ result = NoneV
    /\ mem = [stm |-> EmptyStm, ltm |-> <<>>]
    /\ graph = FALSE
    /\ route_history = <<>>
    /\ calls = NoCalls
    /\ generation_down = FALSE
    /\ memory_mode = "up"
    /\ clock = 0
    /\ other = [tid |-> "b", node |-> "IDLE", state |-> NoState, req |-> NoRequest,
                result |-> NoneV, route_history |-> <<>>, calls |-> NoCalls]

\* the scheduler suspends the running call and resumes the other one
Switch ==
    /\ other.node # "RETURNED"
    /\ other' = [tid |-> Scheduled, node |-> node, state |-> state, req |-> req,
                 result |-> result, route_history |-> route_history, calls |-> calls]
    /\ node' = other.node
    /\ state' = FrameState(other.state, state)
    /\ req' = other.req
    /\ result' = other.result
    /\ route_history' = other.route_history
    /\ calls' = other.calls
    /\ UNCHANGED <<mem, graph, memory_mode, generation_down, clock>>

\* process_request: `if not self.graph`
ConcEnter ==
    /\ node = "IDLE"
    /\ \E question \in ConcQuestions :
        req' = [user |-> UserOf(Scheduled), user_id |-> ConcUserId, question |-> question]
    /\ node' = IF graph THEN "LOAD_STM" ELSE "BUILD"
    /\ UNCHANGED <<state, result, mem, graph, route_history, calls, memory_mode,
                   generation_down, clock, other>>

\* self.graph = self.build_langgraph()
ConcBuildGraph ==
    /\ node = "BUILD"
    /\ graph' = TRUE
    /\ node' = "LOAD_STM"
    /\ UNCHANGED <<state, req, result, mem, route_history, calls, memory_mode,
                   generation_down, clock, other>>

\* stm_context = self._get_stm_context(user_id)
ConcLoadStm ==
    /\ node = "LOAD_STM"
    /\ state' = [state EXCEPT !.context.stm =
                    GetStmContext(mem, req.user_id, StmOutcome(memory_mode))]
    /\ node' = "LOAD_LTM"
    /\ UNCHANGED <<req, result, mem, graph, route_history, calls, memory_mode,
                   generation_down, clock, other>>

\* ltm_context = self._get_ltm_context(user_id), and the initial state
ConcLoadLtm ==
    /\ node = "LOAD_LTM"
    /\ state' = InitialState(req.user, req.user_id, req.question, state.context.stm,
                             GetLtmContext(mem, req.user_id, LtmOutcome(memory_mode)),
                             clock)
    /\ node' = "RouterAgent"
    /\ UNCHANGED <<req, result, mem, graph, route_history, calls, memory_mode,
                   generation_down, clock, other>>

ConcWeatherAgent ==
    \E c \in ConcScripts :
        Responder("WeatherAgent", WeatherAgentNode(state, c.po, c.g1, c.g2, clock))

ConcDiningAgent ==
    \E c \in ConcScripts :
        Responder("DiningAgent", DiningAgentNode(state, c.po, c.g1, c.g2, clock))

ConcScenicLocationFinderAgent ==
    \E c \in ConcScripts :
        Responder("ScenicLocationFinderAgent", ScenicAgentNode(state, c.po, c.g1, c.g2, clock))

ConcForestAnalyzerAgent ==
    \E c \in ConcScripts :
        Responder("ForestAnalyzerAgent", ForestAgentNode(state, c.po, c.g1, c.g2, clock))

NextConcurrent ==
    \/ Switch
    \/ ConcEnter
    \/ ConcBuildGraph
    \/ ConcLoadStm
    \/ ConcLoadLtm
    \/ RouterAgent
    \/ ConcWeatherAgent
    \/ ConcDiningAgent
    \/ ConcScenicLocationFinderAgent
    \/ ConcForestAnalyzerAgent
    \/ ResponseSynthesizer
    \/ Return

SpecConcurrent == InitConcurrent /\ [][NextConcurrent]_vars

\* ------------------------------------------------------------------ claims
\* the responder executions of the run, in order
RespondersRun == SelectSeq(route_history, LAMBDA n : n \in Agents)
\* the graph run is over and process_request has its final state
Finished == node \in {"END", "RETURNED"} /\ "error" \notin DOMAIN result
NoDuplicates(seq) == \A i, j \in 1..Len(seq) : i # j => seq[i] # seq[j]
Range(seq) == { seq[i] : i \in 1..Len(seq) }

\* some step of Next can be taken: process_request can start or return, or
\* the graph node to run next exists and can run
CanStep == node \in {"IDLE", "END", "RAISED"} \/ \E n \in GraphNodes : CanRun(n)

\* C1: every request ends, and no more than maximum_hop_bound + 1 responder
\* executions happen in it, the hop bound being the number of responders.
\* Termination is stated on finite runs: the run has a bounded number of
\* node executions (RouterAgent, the responders, ResponseSynthesizer) and
\* is never stuck before process_request has returned.
C1_TerminatesWithinHopBound ==
    /\ Len(RespondersRun) <= Cardinality(Agents) + 1
    /\ Len(route_history) <= Cardinality(Agents) + 3
    /\ node # "RETURNED" => CanStep
\* a returned request in which four responders ran
C1_Witness == node = "RETURNED" /\ Len(RespondersRun) = 4

\* C2: no responder executes twice in a request, and once the run has
\* finished the responders executed are the keys of agent_responses.
C2_RunOnceAndRecorded ==
    /\ NoDuplicates(RespondersRun)
    /\ Finished => Range(RespondersRun) = Keys(state.agent_responses)
\* a finished run of several responders, one of them through its except branch
C2_Witness ==
    /\ node = "RETURNED"
    /\ Len(RespondersRun) >= 3
    /\ Len(state.execution_path) < Len(route_history)

\* the raw text of the request, lower-cased
RawText == Lower(state.question.chars)
\* a responder has just run: `state` is what its node returned and `node` is
\* what the continuation policy chose
AfterResponder ==
    /\ route_history # <<>>
    /\ route_history[Len(route_history)] \in Agents
Unrun == Agents \ Keys(state.agent_responses)

\* the fields of the dict process_request returns on its normal path
NormalEnvelope(r) ==
    /\ {"response", "timestamp", "system_version", "agent_responses",
        "execution_path"} \subseteq DOMAIN r
    /\ "error" \notin DOMAIN r
    /\ r.agent # "ErrorHandler"

\* C3: for a question that is a str, process_request returns the normal
\* envelope, without the error flag, whatever the prompt manager, the
\* generation service and the memory store did; no exception leaves the
\* graph run.
C3_NormalEnvelope ==
    IsStr(req.question) =>
        /\ node # "RAISED"
        /\ node = "RETURNED" => NormalEnvelope(result)
\* a request returned after failures of all three collaborators
C3_Witness ==
    /\ node = "RETURNED"
    /\ IsStr(req.question)
    /\ memory_mode = "down"
    /\ generation_down
    /\ Len(RespondersRun) >= 2

\* the texts a responder records when it could not get an answer
DegradedTexts ==
    {"Weather information is currently unavailable due to technical issues.",
     "Dining recommendations are currently unavailable due to technical issues.",
     "Scenic location recommendations are currently unavailable due to technical issues.",
     "Forest analysis is currently unavailable due to technical issues.",
     "Search analysis is currently unavailable due to technical issues.",
     "Dining recommendations currently unavailable: AttributeError"}

\* C4: when get_prompt and every generate_response call of a request fail,
\* each responder that ran has a non-empty degraded text as its answer, the
\* run is never stuck, and the returned response is not empty.
C4_DegradedButAnswered ==
    (generation_down /\ IsStr(req.question)) =>
        /\ \A i \in 1..Len(state.agent_responses) :
              /\ Strip(state.agent_responses[i].v) # ""
              /\ state.agent_responses[i].v \in DegradedTexts
        /\ Range(RespondersRun) \subseteq Keys(state.agent_responses)
        /\ node # "RETURNED" => CanStep
        /\ node = "RETURNED" => NormalEnvelope(result) /\ result.response # <<>>
\* a returned request of several responders with the generation service down
C4_Witness ==
    /\ generation_down
    /\ node = "RETURNED"
    /\ Len(RespondersRun) >= 3
    /\ calls = NoCalls

\* The original statement of C5: after a responder has run, if the raw text
\* contains a trigger keyword (agents_config) of a responder that has not run,
\* the policy routes to a responder that has not run; it signals synthesize
\* only when the raw text has no trigger keyword of an un-run responder.
C5_Original ==
    AfterResponder =>
        LET hinted == { a \in Unrun : AnyIn(ConfigKeywords(a), RawText) } IN
        /\ hinted # {} => node \in Unrun
        /\ node = "ResponseSynthesizer" => hinted = {}

\* the hops _route_to_next_agent can make from a responder, each with the
\* words that ask for it
ContinuationWords(agent) ==
    CASE agent = "WeatherAgent" ->
            {<<"DiningAgent", DiningHintsAfterWeather>>,
             <<"ScenicLocationFinderAgent", LocationHints>>}
      [] agent = "DiningAgent" ->
            {<<"WeatherAgent", WeatherHints>>,
             <<"ScenicLocationFinderAgent", LocationHints>>}
      [] agent = "ScenicLocationFinderAgent" ->
            {<<"WeatherAgent", WeatherHints>>,
             <<"DiningAgent", DiningHintsAfterLocation>>,
             <<"ForestAnalyzerAgent", ForestHints>>}
      [] agent = "ForestAnalyzerAgent" ->
            {<<"ScenicLocationFinderAgent", LocationHintsAfterForest>>,
             <<"WeatherAgent", WeatherHintsAfterForest>>}
      [] OTHER -> {}

\* C5 (amended): after a responder R has run, if the raw text contains one of
\* the continuation words listed under R for a responder that has not run,
\* the policy routes to a responder that has not run and that the text asks
\* for; otherwise it signals synthesize.
C5_ContinuationWords ==
    AfterResponder =>
        LET hinted == { h[1] : h \in { w \in ContinuationWords(state.current_agent) :
                                        w[1] \in Unrun /\ AnyIn(w[2], RawText) } } IN
        /\ hinted # {} => node \in hinted
        /\ hinted = {} => node = "ResponseSynthesizer"
\* a run that synthesizes after WeatherAgent and DiningAgent although the
\* text holds the forest keyword "tree"
C5_Witness ==
    /\ AfterResponder
    /\ node = "ResponseSynthesizer"
    /\ state.current_agent = "DiningAgent"
    /\ "ForestAnalyzerAgent" \in Unrun
    /\ AnyIn(ConfigKeywords("ForestAnalyzerAgent"), RawText)

\* the topics of the classifier in their fixed order
Topics ==
    << <<"weather", weather_keywords>>, <<"dining", dining_keywords>>,
       <<"location", location_keywords>>, <<"forest", forest_keywords>>,
       <<"search", search_keywords>> >>
\* the topics that have a keyword in the text
Matching(text) == { i \in 1..Len(Topics) : AnyIn(Topics[i][2], text) }
Least(S) == CHOOSE i \in S : \A j \in S : i <= j

C7_NeverBareEnd ==
    /\ AfterResponder =>
          /\ Len(state.agent_responses) >= 1
          /\ RouteToNextAgent(state) # "end"
          /\ node # "END"
    /\ node = "END" =>
          /\ route_history[Len(route_history)] = "ResponseSynthesizer"
          /\ state.final_response # <<>>
          /\ state.final_response # Sentinel
\* a single-responder run, through the responder's except branch, at END
C7_Witness ==
    /\ node = "END"
    /\ RespondersRun = <<"DiningAgent">>
    /\ Len(state.execution_path) = 2

SlotOf(agent) ==
    CASE agent = "WeatherAgent" -> "weather_data"
      [] agent = "DiningAgent" -> "dining_data"
      [] agent = "ScenicLocationFinderAgent" -> "location_data"
      [] agent = "ForestAnalyzerAgent" -> "forest_data"
      [] agent = "SearchAgent" -> "search_results"
\* the responder entries of the execution trace, in order
PathAgents(path) ==
    SelectSeq([i \in 1..Len(path) |-> path[i].agent], LAMBDA a : a \in Agents)

\* C10: every responder execution appends one entry naming the responder to
\* execution_path and writes the responder's slot, so that at any time the
\* responder entries of execution_path are the responders executed, in
\* invocation order, they are the keys of agent_responses, and the slot of
\* each of them is written.
C10_TraceAndSlot ==
    /\ PathAgents(state.execution_path) = RespondersRun
    /\ Finished => PathAgents(state.execution_path) = KeyList(state.agent_responses)
    /\ \A a \in Range(RespondersRun) : IsDict(state[SlotOf(a)])

\* what a responder node called on state s has returned in state t
Recorded(agent, s, t) ==
    LET before == Get(s, "agent_responses", <<>>)
        after == Get(t, "agent_responses", <<>>) IN
    /\ {"current_agent", "agent_responses"} \subseteq t.present
    /\ t.current_agent = agent
    /\ Has(after, agent)
    /\ ValueOf(after, agent) # ""
    /\ \A i \in 1..Len(before) :
          before[i].k # agent =>
              Has(after, before[i].k) /\ ValueOf(after, before[i].k) = before[i].v

\* C9: when a responder node returns, on its normal path or through its
\* except branch, on the state of a request or on a state holding only
\* question and user_id, current_agent is the responder's label and
\* agent_responses maps that label to a non-empty text and keeps the entries
\* it had for the other responders.
C9_ResponderRecordsAnswer ==
    [][\A agent \in Agents :
          route_history' = Append(route_history, agent) =>
              Recorded(agent, state, state')]_vars
\* DiningAgent has returned through its except branch with an earlier
\* answer in the state
C9_Witness ==
    /\ node = "CALLED"
    /\ route_history = <<"DiningAgent">>
    /\ KeyList(state.agent_responses) = <<"WeatherAgent", "DiningAgent">>
    /\ state.agent_responses[2].v = "Dining recommendations currently unavailable: AttributeError"

\* the texts the except branches of the responder nodes record, without the
\* interpolated exception
ErrorBranchTexts ==
    {"Weather information currently unavailable: AttributeError",
     "Dining recommendations currently unavailable: AttributeError",
     "Location recommendations currently unavailable: AttributeError",
     "Forest analysis currently unavailable: AttributeError",
     "Search analysis currently unavailable: AttributeError"}
\* the responder that ran last
LastResponder == route_history[Len(route_history)]

\* C11: a responder that runs while the peer slots it reads are None, as
\* process_request initialises them, completes its normal path: it appends
\* its entry to execution_path, writes its slot and records the text of the
\* generation block, not the text of its except branch.
C11_PeerContextOptional ==
    AfterResponder =>
        /\ ValueOf(state.agent_responses, LastResponder) \notin ErrorBranchTexts
        /\ state.execution_path[Len(state.execution_path)].agent = LastResponder
        /\ IsDict(state[SlotOf(LastResponder)])

\* the "currently unavailable due to technical issues" texts
UnavailableTexts ==
    {"Weather information is currently unavailable due to technical issues.",
     "Dining recommendations are currently unavailable due to technical issues.",
     "Scenic location recommendations are currently unavailable due to technical issues.",
     "Forest analysis is currently unavailable due to technical issues.",
     "Search analysis is currently unavailable due to technical issues."}

\* C12: in one responder execution generate_response is called at most
\* twice; the fallback call is made only after get_prompt gave no usable
\* prompt or the primary call raised; when the primary call returned, no
\* second call is made; and the "currently unavailable due to technical
\* issues" text is recorded exactly when the fallback call raised as well
\* (and the responder did not end in its except branch).
C12_OneFallback ==
    AfterResponder =>
        LET answer == ValueOf(state.agent_responses, LastResponder) IN
        /\ CallCount(calls) <= 2
        /\ calls.fallback # "not_called" => (~calls.prompt \/ calls.primary = "raise")
        /\ calls.primary = "return" => calls.fallback = "not_called"
        /\ ~calls.prompt => calls.primary = "not_called"
        /\ answer \in UnavailableTexts => calls.fallback = "raise"
        /\ (calls.fallback = "raise" /\ answer \notin ErrorBranchTexts)
              => answer \in UnavailableTexts
\* a responder recorded the degraded text after the primary and the fallback
\* call both raised
C12_Witness ==
    /\ AfterResponder
    /\ calls.prompt
    /\ calls.primary = "raise"
    /\ calls.fallback = "raise"
    /\ ValueOf(state.agent_responses, LastResponder) \in UnavailableTexts

\* the strings OllamaClient.generate_response returns for a failed exchange
ClientFailureTexts ==
    {"Request timed out. Please try again.",
     "Error generating response: RequestException",
     "An unexpected error occurred."}

\* C13: when the exchange with the generation service times out, finds it
\* unavailable or gets a malformed reply, what the client hands back for the
\* failure is not recorded as the answer of the responder (the responder
\* retries with the fallback template and records the degraded text if that
\* fails too).
C13_FailureNotAnswer ==
    node = "CALLED" =>
        ValueOf(state.agent_responses, LastResponder) \notin ClientFailureTexts

\* the state the continuation policy looks at after `ran` have run
PolicyView(question, ran) ==
    [NoState EXCEPT !.present = {"question", "current_agent", "agent_responses"},
                    !.question = question,
                    !.current_agent = ran[Len(ran)],
                    !.agent_responses = [i \in 1..Len(ran) |-> [k |-> ran[i], v |-> "answer"]]]
\* the responders a question leads through, by the classifier and the
\* continuation policy alone
RECURSIVE RouteFrom(_, _, _)
RouteFrom(question, next, ran) ==
    IF next \notin Agents \/ Len(ran) > Cardinality(Agents) THEN ran
    ELSE RouteFrom(question,
                   EdgeMap(RouteToNextAgent(PolicyView(question, Append(ran, next)))),
                   Append(ran, next))
RouteOf(question) ==
    RouteFrom(question, EdgeMap(AnalyzeQueryForRouting(question.chars)), <<>>)

\* C14: the responders executed and their order depend on the question
\* only, so they are the same with a failing and with a working memory
\* store; when every memory call of the request fails, the context attached
\* to the state is empty, nothing is persisted, and the request returns the
\* normal envelope with a non-empty response.
C14_MemoryDownStillAnswers ==
    IsStr(req.question) =>
        /\ node = "RETURNED" => RespondersRun = RouteOf(req.question)
        /\ memory_mode = "down" =>
              /\ state.context = [stm |-> EmptyDict, ltm |-> EmptyDict]
              /\ mem = [stm |-> EmptyStm, ltm |-> <<>>]
              /\ node # "RETURNED" => CanStep
              /\ node = "RETURNED" =>
                    /\ NormalEnvelope(result)
                    /\ result.response # <<>>
                    /\ result.response # Sentinel
\* a request of three responders has returned with the memory store down
C14_Witness ==
    /\ node = "RETURNED"
    /\ memory_mode = "down"
    /\ ~generation_down
    /\ Len(RespondersRun) = 3
    /\ "error" \notin DOMAIN result

\* the final response holds the heading of `agent` followed by `text`
HasSection(final_response, agent, text) ==
    \E i \in 1..(Len(final_response) - 1) :
        /\ final_response[i] = Part("heading", AgentName(agent), "")
        /\ final_response[i + 1] = Part("text", text, "")

\* C15: in a finished request the final response holds, for every responder
\* that executed, also when it is the only one, the heading of that
\* responder followed by the text recorded for it in agent_responses.
C15_EveryResponderHasSection ==
    Finished =>
        \A agent \in Range(RespondersRun) :
            HasSection(state.final_response, agent,
                       ValueOf(state.agent_responses, agent))

\* the headings of a final response, in the order they are printed
Headings(final_response) ==
    LET hs == SelectSeq(final_response, LAMBDA p : p.part = "heading") IN
    [i \in 1..Len(hs) |-> hs[i].a]
\* the place of a heading in the order Weather, Dining, ScenicLocation,
\* ForestAnalyzer, Search
Rank(name) ==
    CASE name = "Weather" -> 1
      [] name = "Dining" -> 2
      [] name = "ScenicLocation" -> 3
      [] name = "ForestAnalyzer" -> 4
      [] name = "Search" -> 5
\* the responders were not invoked in the canonical order
InvokedOutOfOrder(agent_responses) ==
    \E i, j \in 1..Len(agent_responses) :
        i < j /\ Rank(AgentName(agent_responses[i].k)) > Rank(AgentName(agent_responses[j].k))

\* C16: the headings of the final response appear in the order Weather,
\* Dining, ScenicLocation, ForestAnalyzer, Search, each at most once,
\* whatever the order in which the responders were invoked.
C16_CanonicalOrder ==
    LET hs == Headings(state.final_response) IN
    \A i, j \in 1..Len(hs) : i < j => Rank(hs[i]) < Rank(hs[j])
\* a returned request in which ForestAnalyzerAgent was invoked before
\* ScenicLocationFinderAgent and ScenicLocation is printed first
C16_Witness ==
    /\ node = "RETURNED"
    /\ KeyList(state.agent_responses) = <<"ForestAnalyzerAgent", "ScenicLocationFinderAgent">>
    /\ Headings(state.final_response) = <<"ScenicLocation", "ForestAnalyzer">>

SynthesizerRan == "ResponseSynthesizer" \in Range(route_history)

\* C17: final_response and response are empty as long as ResponseSynthesizer
\* has not run: RouterAgent and the responders leave them alone; the step of
\* ResponseSynthesizer writes them, and no later step changes them.
C17_FinalResponseWrittenOnce ==
    [][/\ ~SynthesizerRan =>
             /\ state.final_response = <<>>
             /\ state.response = <<>>
       /\ (~SynthesizerRan /\ route_history' # Append(route_history, "ResponseSynthesizer")) =>
             /\ state'.final_response = <<>>
             /\ state'.response = <<>>
       /\ route_history' = Append(route_history, "ResponseSynthesizer") =>
             /\ state'.final_response # <<>>
             /\ state'.response = state'.final_response
       /\ SynthesizerRan =>
             /\ state'.final_response = state.final_response
             /\ state'.response = state.response]_vars
\* process_request has returned what ResponseSynthesizer wrote after three
\* responders
C17_Witness ==
    /\ node = "RETURNED"
    /\ SynthesizerRan
    /\ Len(RespondersRun) = 3
    /\ result.response = state.final_response
    /\ state.final_response # <<>>

\* the memory store holds a record written for `agent` on behalf of `uid`
Persisted(store, uid, agent) ==
    \/ Has(GetAllStmForUser(store.stm, uid), agent)
    \/ \E i \in 1..Len(store.ltm) : store.ltm[i].user = uid /\ store.ltm[i].agent = agent

\* C18: when process_request returns after the synthesizer has finished,
\* the final composite record of the request has been persisted through the
\* memory store (as LangGraphFramework._store_results_to_memory does it,
\* under the agent that finished the run), the store working.
C18_FinalRecordPersisted ==
    (node = "RETURNED" /\ Finished /\ memory_mode = "up") =>
        Persisted(mem, UidStr(req.user_id), state.current_agent)

\* a call of process_request starts
RequestStarts == node \in {"IDLE", "RETURNED"} /\ node' = "RouterAgent"

\* C19: the short-term and the long-term context are loaded when
\* process_request starts, before any node has run, and no node changes the
\* context: what the responders of the request persist reaches the store but
\* not the context of the responders that run after them.
C19_ContextIsSnapshot ==
    [][/\ RequestStarts =>
             /\ route_history' = <<>>
             /\ state'.context =
                   [stm |-> GetStmContext(mem, req'.user_id, StmOutcome(memory_mode')),
                    ltm |-> GetLtmContext(mem, req'.user_id, LtmOutcome(memory_mode'))]
       /\ ~RequestStarts => state'.context = state.context]_vars
\* in a second request ScenicLocationFinderAgent has run after WeatherAgent
\* persisted its exchange, with a context that holds the first request's
\* exchange only
C19_Witness ==
    /\ RespondersRun = <<"WeatherAgent", "ScenicLocationFinderAgent">>
    /\ memory_mode = "up"
    /\ KeyList(GetAllStmForUser(mem.stm, "1")) = <<"SearchAgent", "WeatherAgent", "ScenicLocationFinderAgent">>
    /\ KeyList(state.context.stm.recent_interactions) = <<"SearchAgent">>

C21_MalformedRejected ==
    (node = "RETURNED" /\ (req.user_id = NoneV \/ req.question = NoneV)) =>
        /\ result.agent = "ErrorHandler"
        /\ RespondersRun = <<>>
        /\ req.user_id = NoneV =>
              \A agent \in Agents : ~Persisted(mem, UidStr(req.user_id), agent)

HintedTopics(text) ==
    {t \in {"weather", "dining", "location"} :
        AnyIn(CASE t = "weather" -> WeatherHints
                [] t = "dining" -> DiningHintsAfterWeather
                [] t = "location" -> LocationHints, text)}

\* C23: when the raw text holds continuation hints for at least two of the
\* topics weather, dining and location, the returned request has executed
\* at least two distinct responders and its final response holds at least
\* two responder headings.
C23_TwoTopicsTwoHeadings ==
    (node = "RETURNED" /\ IsStr(req.question)
     /\ Cardinality(HintedTopics(RawText)) >= 2) =>
        /\ Cardinality(Range(RespondersRun)) >= 2
        /\ Len(Headings(result.response)) >= 2

\* C24: whatever the keyword rules are, a request executes each responder
\* at most once, no exception leaves the graph run, the policy never
\* signals a bare end, and the run goes through ResponseSynthesizer to the
\* return of process_request within the hop bound (the number of
\* responders), never being stuck before.
C24_TerminatesUnderAnyRules ==
    /\ NoDuplicates(RespondersRun)
    /\ Len(RespondersRun) <= Cardinality(Agents)
    /\ Len(route_history) <= Cardinality(Agents) + 2
    /\ node # "RAISED"
    /\ node # "RETURNED" => CanStep
    /\ node \in {"END", "RETURNED"} =>
          /\ route_history[Len(route_history)] = "ResponseSynthesizer"
          /\ Range(RespondersRun) = Keys(state.agent_responses)
    /\ node = "RETURNED" => NormalEnvelope(result)
\* a request returned after four responders ran, ForestAnalyzerAgent hinted
\* from ScenicLocationFinderAgent and WeatherAgent from ForestAnalyzerAgent
C24_Witness ==
    /\ node = "RETURNED"
    /\ RespondersRun = <<"DiningAgent", "ScenicLocationFinderAgent",
                         "ForestAnalyzerAgent", "WeatherAgent">>

\* the locals of the scheduled call, as `other` holds those of the
\* suspended one
Running ==
    [tid |-> Scheduled, node |-> node, state |-> state, req |-> req,
     result |-> result, route_history |-> route_history, calls |-> calls]
\* what a returned call holds was produced by its own request: the envelope
\* echoes its user and question, the responders it executed, the keys of
\* agent_responses, the agents of execution_path and the headings of the
\* final response are those of the route of its own question
OwnEntriesOnly(call) ==
    call.node = "RETURNED" =>
        LET route == RouteOf(call.req.question)
            path == PathAgents(call.result.execution_path)
        IN
        /\ NormalEnvelope(call.result)
        /\ call.result.user = UserOf(call.tid)
        /\ call.result.question = call.req.question
        /\ SelectSeq(call.route_history, LAMBDA n : n \in Agents) = route
        /\ KeyList(call.result.agent_responses) = route
        /\ call.result.agents_involved = route
        /\ call.state.agent_responses = call.result.agent_responses
        /\ Len(path) <= Len(route) + 2
        /\ Range(path) \subseteq Range(route) \cup {"RouterAgent", "ResponseSynthesizer"}
        /\ \A i, j \in 1..Len(call.result.execution_path) :
              i < j => call.result.execution_path[i].timestamp
                          < call.result.execution_path[j].timestamp
        /\ call.result.response = call.state.final_response
        /\ \A h \in Range(Headings(call.result.response)) :
              \E agent \in Range(route) : h = AgentName(agent)

\* C25: of two process_request calls interleaved on the shared instance,
\* each returns with agent_responses, execution_path and final_response
\* holding only what its own request produced; the instance state written
\* is the graph alone, built before the first node of either call runs and
\* never unset.
C25_ConcurrentRequestsIndependent ==
    /\ OwnEntriesOnly(Running)
    /\ OwnEntriesOnly(other)
    /\ (node \notin {"IDLE", "BUILD"} \/ other.node \notin {"IDLE", "BUILD"}) => graph
    /\ node # "RAISED" /\ other.node # "RAISED"
\* both calls have returned, after different routes, the responder of one
\* having run between the two responders of the other
C25_Witness ==
    /\ node = "RETURNED"
    /\ other.node = "RETURNED"
    /\ result.agents_involved = <<"WeatherAgent", "ScenicLocationFinderAgent">>
    /\ other.result.agents_involved = <<"ForestAnalyzerAgent">>
    /\ result.execution_path[2].timestamp < other.result.execution_path[2].timestamp
    /\ other.result.execution_path[2].timestamp < result.execution_path[3].timestamp

\* C26: a step changes the slot of a responder only when it is the
\* execution of that responder, and then the slot was still None: no
\* responder changes the slot of another one, each slot is written at most
\* once in a request, and the shared_data dict stays as process_request
\* built it.
C26_OwnSlotWrittenOnce ==
    [][/\ \A agent \in Agents :
             state'[SlotOf(agent)] # state[SlotOf(agent)] =>
                 /\ node = agent
                 /\ route_history' = Append(route_history, agent)
                 /\ state[SlotOf(agent)] = NoneV
                 /\ state'.current_agent = agent
       /\ state'.shared_data = state.shared_data]_vars
\* a returned request in which WeatherAgent, ScenicLocationFinderAgent and
\* ForestAnalyzerAgent each wrote their slot, DiningAgent not having run
C26_Witness ==
    /\ node = "RETURNED"
    /\ RespondersRun = <<"WeatherAgent", "ScenicLocationFinderAgent", "ForestAnalyzerAgent">>
    /\ state.location_data # NoneV
    /\ state.forest_data # NoneV
    /\ state.weather_data # NoneV
    /\ state.dining_data = NoneV
    /\ state.search_results = NoneV

\* C27: every step keeps the entries execution_path already holds, unchanged
\* and in place, and appends at most one entry; when the graph run has
\* completed, the first entry is that of RouterAgent and the last one that
\* of ResponseSynthesizer.
C27_ExecutionPathAppendOnly ==
    [][LET old == state.execution_path
           new == state'.execution_path
       IN
       /\ Len(new) \in {Len(old), Len(old) + 1}
       /\ SubSeq(new, 1, Len(old)) = old
       /\ (node' \in {"END", "RETURNED"} /\ "error" \notin DOMAIN result') =>
             /\ Len(new) >= 2
             /\ new[1].agent = "RouterAgent"
             /\ new[Len(new)].agent = "ResponseSynthesizer"]_vars
\* a returned request whose execution path holds the entries of RouterAgent,
\* three responders and ResponseSynthesizer, with growing timestamps
C27_Witness ==
    /\ node = "RETURNED"
    /\ Len(state.execution_path) = 5
    /\ PathAgents(state.execution_path) =
          <<"WeatherAgent", "ScenicLocationFinderAgent", "ForestAnalyzerAgent">>
    /\ state.execution_path[1].agent = "RouterAgent"
    /\ state.execution_path[5].agent = "ResponseSynthesizer"
    /\ \A i \in 1..4 :
          state.execution_path[i].timestamp < state.execution_path[i + 1].timestamp

\* the keys of the state that hold the request as process_request received it
RequestKeys == {"question", "user", "user_id", "timestamp", "context"}

\* C28: process_request puts its arguments into the state, and no node
\* changes question, user, user_id, timestamp or context afterwards; the
\* dict process_request returns, on either path, echoes user and question
\* as they were passed.
C28_RequestFieldsImmutable ==
    [][/\ node = "IDLE" =>
             /\ state'.question = req'.question
             /\ state'.user = req'.user
             /\ state'.user_id = req'.user_id
       /\ node # "IDLE" =>
             /\ req' = req
             /\ \A key \in RequestKeys :
                   /\ state'[key] = state[key]
                   /\ key \in state'.present
       /\ node' = "RETURNED" =>
             /\ result'.user = req.user
             /\ result'.question = req.question
             /\ result'.user_id = req.user_id
             /\ "error" \notin DOMAIN result' =>
                   /\ result'.context = state.context
                   /\ result'.timestamp = state.timestamp]_vars
\* a request with a question in mixed case has returned after two responders
C28_Witness ==
    /\ node = "RETURNED"
    /\ result.question = Str(JoinWords(<<Vocabulary[8], Vocabulary[9]>>))
    /\ state.question = result.question
    /\ result.user = "test_user"
    /\ result.agents_involved = <<"WeatherAgent", "DiningAgent">>

\* LangGraphAgent._clean_response, on the texts of the model: a text that
\* is a JSON object is replaced by its field response, else content, else
\* text; every other text is returned as it is
CleanResponse(response) ==
    IF response \in {JsonResponseText, JsonContent, JsonOther} THEN
        LET json_response == JsonLoads(response) IN
        IF "response" \in DOMAIN json_response THEN json_response.response
        ELSE IF "content" \in DOMAIN json_response THEN json_response.content
        ELSE IF "text" \in DOMAIN json_response THEN json_response.text
        ELSE response
    ELSE response

\* C29: the answer a responder records is the reply of the generation
\* service with a structured envelope unwrapped: the value of the first of
\* the fields response, content, text when the reply is a JSON object
\* holding one, and the reply itself otherwise. A recorded answer is thus
\* never an envelope that still has to be unwrapped.
C29_EnvelopeUnwrapped ==
    node = "CALLED" =>
        LET answer == ValueOf(state.agent_responses, LastResponder) IN
        CleanResponse(answer) = answer

\* C30: called on a state without responder answers, the synthesizer
\* returns a state whose final_response and response are the sentinel "No
\* agent responses to synthesize." and whose other keys are those of the
\* state it was given, with their values: no execution_path entry is added
\* and current_agent is not changed.
C30_NothingToSynthesize ==
    [][(/\ route_history' = Append(route_history, "ResponseSynthesizer")
        /\ Len(Get(state, "agent_responses", <<>>)) = 0) =>
          /\ node' = "CALLED"
          /\ state'.final_response = Sentinel
          /\ state'.response = Sentinel
          /\ state'.present = state.present \cup {"final_response", "response"}
          /\ \A key \in StateKeys \ {"final_response", "response"} :
                state'[key] = state[key]]_vars
\* the synthesizer has returned the sentinel for the state process_request
\* builds, leaving current_agent empty and the execution path without
\* entries
C30_Witness ==
    /\ node = "CALLED"
    /\ route_history = <<"ResponseSynthesizer">>
    /\ state.final_response = Sentinel
    /\ state.response = Sentinel
    /\ state.present = StateKeys
    /\ state.current_agent = ""
    /\ state.execution_path = <<>>
    /\ state.agent_responses = <<>>

\* the first record of the durable log written for the text of the running
\* request, by whatever requester, or 0 when the log has none
FirstLogged(log, question) ==
    LET S == { i \in 1..Len(log) : log[i].value.q = question } IN
    IF S = {} THEN 0 ELSE Least(S)

\* C31: two requests with the same raw text get the same initial route: the
\* responder RouterAgent hands over to is the one the classifier gives for
\* the raw text alone, and it is the responder that answered first when an
\* earlier request of the same system had the same text, whoever the two
\* requesters are and whatever the store held when the contexts were loaded.
C31_SameTextSameInitialRoute ==
    (route_history = <<"RouterAgent">> /\ IsStr(req.question)) =>
        /\ node = EdgeMap(AnalyzeQueryForRouting(req.question.chars))
        /\ FirstLogged(mem.ltm, req.question) # 0 =>
              node = mem.ltm[FirstLogged(mem.ltm, req.question)].agent
\* the anonymous requester repeats the text requester 1 asked before, the
\* store holding the earlier exchange, and RouterAgent has routed it
C31_Witness ==
    /\ route_history = <<"RouterAgent">>
    /\ req.user_id = NoneV
    /\ node = "WeatherAgent"
    /\ memory_mode = "up"
    /\ Len(mem.ltm) > 0
    /\ FirstLogged(mem.ltm, req.question) # 0
    /\ mem.ltm[FirstLogged(mem.ltm, req.question)].user = "1"

\* the responders a call has executed so far, in order
RespondersOf(call) == SelectSeq(call.route_history, LAMBDA n : n \in Agents)
\* one sequence continues the other
Agree(a, b) ==
    \A i \in 1..(IF Len(a) < Len(b) THEN Len(a) ELSE Len(b)) : a[i] = b[i]

\* C32: two runs on the same raw text execute the same responders in the
\* same order, also when the generation service answers in one of them and
\* fails in the other and when the two runs loaded different memory
\* contexts: at every moment the responders one run has executed continue
\* those of the other, and once both have returned the two sequences are
\* equal.
C32_SameTextSameResponders ==
    (IsStr(req.question) /\ req.question = other.req.question) =>
        /\ Agree(RespondersOf(Running), RespondersOf(other))
        /\ (node = "RETURNED" /\ other.node = "RETURNED") =>
              RespondersOf(Running) = RespondersOf(other)
\* two runs on the same text have returned after WeatherAgent and
\* ScenicLocationFinderAgent, the generation service having answered in one
\* and failed in the other, the later one with the exchange of the earlier
\* one in its context
C32_Witness ==
    /\ node = "RETURNED"
    /\ other.node = "RETURNED"
    /\ req.question = other.req.question
    /\ RespondersOf(Running) = <<"WeatherAgent", "ScenicLocationFinderAgent">>
    /\ ValueOf(result.agent_responses, "WeatherAgent") = "Generated answer."
    /\ ValueOf(other.result.agent_responses, "WeatherAgent")
          = "Weather information is currently unavailable due to technical issues."
    /\ state.context.stm.count = 0
    /\ other.state.context.stm.count > 0

\* C33 as stated: the continuation policy routes to a responder only if the
\* raw text contains at least one of the keywords of that responder's
\* descriptor in agents_config.
C33_Original ==
    (AfterResponder /\ node \in Agents) => AnyIn(ConfigKeywords(node), RawText)

\* C33 (amended): the continuation policy routes to a responder only if the
\* raw text contains at least one of the words _route_to_next_agent lists
\* for the hop from the responder that has just run to that responder.
C33_RoutesOnlyOnHopWords ==
    (AfterResponder /\ node \in Agents) =>
        \E w \in ContinuationWords(state.current_agent) :
            w[1] = node /\ AnyIn(w[2], RawText)
\* WeatherAgent has handed over to ScenicLocationFinderAgent on a text that
\* holds a location word of the policy and no keyword of the descriptor
C33_Witness ==
    /\ AfterResponder
    /\ state.current_agent = "WeatherAgent"
    /\ node = "ScenicLocationFinderAgent"
    /\ AnyIn(LocationHints, RawText)
    /\ ~AnyIn(ConfigKeywords("ScenicLocationFinderAgent"), RawText)

\* C34: when the short-term cache write of an exchange fails, the exchange
\* is still appended to the long-term log: with the cache failing and the
\* log working, the log holds a record for every responder that completed
\* and asked for its exchange to be stored.
C34_LogWrittenWhenCacheFails ==
    memory_mode = "stm_down" =>
        \A agent \in Range(PathAgents(state.execution_path)) \cap Agents :
            \E i \in 1..Len(mem.ltm) :
                /\ mem.ltm[i].agent = agent
                /\ mem.ltm[i].user = UidStr(req.user_id)
                /\ mem.ltm[i].value.a = ValueOf(state.agent_responses, agent)

\* self.routing_rules: the responders listed under a responder
RoutingRules(agent) ==
    CASE agent = "WeatherAgent" -> {"ScenicLocationFinderAgent", "DiningAgent"}
      [] agent = "DiningAgent" -> {"WeatherAgent", "ScenicLocationFinderAgent"}
      [] agent = "ScenicLocationFinderAgent" ->
            {"WeatherAgent", "DiningAgent", "ForestAnalyzerAgent"}
      [] agent = "ForestAnalyzerAgent" -> {"ScenicLocationFinderAgent", "WeatherAgent"}
      [] agent = "SearchAgent" -> {}

C36_SearchAgentOnlyFirstAndAlone ==
    /\ AfterResponder => node # "SearchAgent"
    /\ "SearchAgent" \in Range(route_history) =>
          /\ route_history[2] = "SearchAgent"
          /\ RespondersRun = <<"SearchAgent">>
          /\ Len(route_history) = 2 => node = "ResponseSynthesizer"
          /\ Keys(state.agent_responses) = {"SearchAgent"}
\* a request whose text holds a search word and a location word of the
\* policy has returned after SearchAgent alone
C36_Witness ==
    /\ node = "RETURNED"
    /\ RespondersRun = <<"SearchAgent">>
    /\ AnyIn(LocationHints, RawText)
    /\ result.agents_involved = <<"SearchAgent">>

\* ------------------------------------ the continuation policy called directly
\* _route_to_next_agent called as a function on the states it can be handed:
\* any question of the model, any responder as the one that has just run, and
\* any set of responders recorded in agent_responses before it.
PolicyStates ==
    { PolicyView(q, Append(SelectSeq(agent_order, LAMBDA a : a \in ran), current)) :
        q \in Questions, current \in Agents, ran \in SUBSET Agents }

InitPolicy ==
    /\ node = "CALL"
    /\ state \in { s \in PolicyStates : NoDuplicates(KeyList(s.agent_responses)) }
    /\ req = NoRequest
    /\ result = NoneV
    /\ mem = [stm |-> EmptyStm, ltm |-> <<>>]
    /\ graph = FALSE
    /\ route_history = <<>>
    /\ calls = NoCalls
    /\ memory_mode = "up"
    /\ generation_down = FALSE
    /\ clock = 0
    /\ other = NoThread

\* self._route_to_next_agent(state), followed by the path map
CallRouteToNextAgent ==
    /\ node = "CALL"
    /\ node' = EdgeMap(RouteToNextAgent(state))
    /\ route_history' = Append(route_history, state.current_agent)
    /\ UNCHANGED <<state, req, result, mem, graph, calls, memory_mode,
                   generation_down, clock, other>>

NextPolicy == CallRouteToNextAgent

SpecPolicy == InitPolicy /\ [][NextPolicy]_vars

\* the hops the claim lists for a responder, in the order of their
\* precedence, each with the words the policy tests for it
Precedence(agent) ==
    CASE agent = "WeatherAgent" ->
            << <<"DiningAgent", DiningHintsAfterWeather>>,
               <<"ScenicLocationFinderAgent", LocationHints>> >>
      [] agent = "DiningAgent" ->
            << <<"WeatherAgent", WeatherHints>>,
               <<"ScenicLocationFinderAgent", LocationHints>> >>
      [] agent = "ScenicLocationFinderAgent" ->
            << <<"WeatherAgent", WeatherHints>>,
               <<"DiningAgent", DiningHintsAfterLocation>>,
               <<"ForestAnalyzerAgent", ForestHints>> >>
      [] agent = "ForestAnalyzerAgent" ->
            << <<"ScenicLocationFinderAgent", LocationHintsAfterForest>>,
               <<"WeatherAgent", WeatherHintsAfterForest>> >>
      [] OTHER -> <<>>
\* the hops of `agent` that lead to a responder not run yet and that the
\* text asks for, by their place in the precedence
HintedHops(agent) ==
    { i \in 1..Len(Precedence(agent)) :
        /\ Precedence(agent)[i][1] \in Unrun
        /\ AnyIn(Precedence(agent)[i][2], RawText) }

\* C37: when several responders that have not run are hinted at once, the
\* continuation policy picks the first of them in the precedence of the
\* responder that has just run: after WeatherAgent, DiningAgent before
\* ScenicLocationFinderAgent; after DiningAgent, WeatherAgent before
\* ScenicLocationFinderAgent; after ScenicLocationFinderAgent, WeatherAgent
\* before DiningAgent before ForestAnalyzerAgent; after ForestAnalyzerAgent,
\* ScenicLocationFinderAgent before WeatherAgent.
C37_FixedPrecedence ==
    (node # "CALL" /\ HintedHops(state.current_agent) # {}) =>
        node = Precedence(state.current_agent)[Least(HintedHops(state.current_agent))][1]
\* the policy, called after ScenicLocationFinderAgent alone on a text that
\* asks for WeatherAgent, DiningAgent and ForestAnalyzerAgent, has chosen
\* WeatherAgent
C37_Witness ==
    /\ node = "WeatherAgent"
    /\ state.current_agent = "ScenicLocationFinderAgent"
    /\ Keys(state.agent_responses) = {"ScenicLocationFinderAgent"}
    /\ HintedHops("ScenicLocationFinderAgent") = {1, 2, 3}

\* C38: the "Execution Path" trailer that closes the final response lists,
\* in order, one "agent: action" line for every execution_path entry
\* recorded before the synthesizer ran, the first being RouterAgent's and
\* the others responders'; it has at least one line, it holds no line for
\* the synthesizer's own entry, and the final response holds no other
\* trailer or line.
C38_TrailerListsPathBeforeSynthesis ==
    SynthesizerRan =>
        LET final_response == state.final_response
            n == Len(state.execution_path) - 1
            before == SubSeq(state.execution_path, 1, n)
            at == Len(final_response) - n
        IN
        /\ state.execution_path[n + 1].agent = "ResponseSynthesizer"
        /\ n >= 1
        /\ at > 1
        /\ final_response[at] = Part("trailer", "Execution Path:", "")
        /\ \A i \in 1..n :
              final_response[at + i] = Part("step", before[i].agent, before[i].action)
        /\ \A i \in 1..(at - 1) : final_response[i].part \notin {"trailer", "step"}
        /\ before[1].agent = "RouterAgent"
        /\ \A i \in 2..n : before[i].agent \in Agents
\* a request of three responders has returned with a trailer of three lines,
\* the responder that left through its except branch having no entry
C38_Witness ==
    /\ node = "RETURNED"
    /\ SynthesizerRan
    /\ RespondersRun = <<"WeatherAgent", "DiningAgent", "ScenicLocationFinderAgent">>
    /\ Len(SelectSeq(result.response, LAMBDA p : p.part = "step")) = 3
    /\ result.response[Len(result.response)]
          = Part("step", "ScenicLocationFinderAgent", "Provided location recommendations")

\* ------------------------------------------------------ LangGraphFramework
\* The single-node orchestrator of langgraph_framework.py. In this
\* specification `graph` holds the attributes of the LangGraphFramework
\* instance (agents_config, edge_map, entry_point, loaded_agents and whether
\* self.graph is built), `state` the GraphState of the run, and a response is
\* the sequence of the texts it is put together from. agents.json is an input:
\* it holds ScenicLocationFinder and ForestAnalyzer or ForestAnalyzer alone,
\* with or without edges between them, or it cannot be loaded.

\* __init__ with load_agents_config: the attributes of the instance after
\* construction, `config` being what json.load returned, not loaded when
\* opening or parsing agents.json raised; the except branch assigns
\* agents_config and edge_map only. An edge map is a function from the agent
\* ids to their lists, the empty list standing for a missing key.
LoadAgentsConfig(config) ==
    IF ~config.loaded
    THEN [agents_config |-> {},
          edge_map |-> [k \in {"ScenicLocationFinder", "ForestAnalyzer"} |-> <<>>],
          entry_point |-> AbsentV, loaded_agents |-> {}, graph |-> FALSE]
    ELSE [agents_config |-> config.agents, edge_map |-> config.edges,
          entry_point |-> TextV(config.entry_point), loaded_agents |-> {},
          graph |-> FALSE]

InitFramework ==
    /\ node = "IDLE"
    /\ state = NoState
    /\ req = NoRequest
    /\ result = NoneV
    /\ mem = [stm |-> EmptyStm, ltm |-> <<>>]
    /\ \E agents \in {{"ScenicLocationFinder", "ForestAnalyzer"}, {"ForestAnalyzer"}},
          edges \in [{"ScenicLocationFinder", "ForestAnalyzer"} ->
                        {<<>>, <<"SearchAgent", "ForestAnalyzer">>,
                         <<"ForestAnalyzer", "ScenicLocationFinder">>}],
          loaded \in BOOLEAN :
        graph = LoadAgentsConfig([loaded |-> loaded, agents |-> agents, edges |-> edges,
                                  entry_point |-> "ScenicLocationFinder"])
    /\ route_history = <<>>
    /\ calls = NoCalls
    /\ generation_down = FALSE
    /\ memory_mode = "up"
    /\ clock = 0
    /\ other = NoThread

\* LangGraphFramework.process_request up to graph.invoke: initialize_agents
\* and build_langgraph when not done, the two contexts, and the initial
\* GraphState, which reads self.entry_point outside the try block
FrameworkProcessRequest ==
    /\ node = "IDLE"
    /\ \E question \in {NoneV, Str(<<>>), Str(Vocabulary[1]), Str(Vocabulary[3])},
          mode \in {"up", "down"} :
        LET user_id == [type |-> "int", str |-> "1"]
            instance == [graph EXCEPT !.loaded_agents =
                                          IF @ = {} THEN graph.agents_config ELSE @,
                                      !.graph = TRUE]
        IN
        /\ memory_mode' = mode
        /\ req' = [user |-> "test_user", user_id |-> user_id, question |-> question]
        /\ graph' = instance
        /\ IF instance.entry_point = AbsentV
           THEN /\ node' = "RAISED_TO_CALLER"
                /\ state' = state
           ELSE /\ node' = "orchestrator"
                /\ state' = [user |-> "test_user", user_id |-> user_id,
                             question |-> question,
                             current_agent |-> instance.entry_point.text,
                             response |-> <<>>,
                             context |-> [stm |-> GetStmContext(mem, user_id, StmOutcome(mode)),
                                          ltm |-> GetLtmContext(mem, user_id, LtmOutcome(mode))],
                             memory |-> [interactions |-> <<>>, agent_responses |-> <<>>],
                             edges_traversed |-> <<>>, timestamp |-> clock]
    /\ clock' = clock + 1
    /\ UNCHANGED <<result, mem, route_history, calls, generation_down, other>>

\* LangGraphAgent.execute: po is the outcome of get_prompt and g1 of
\* generate_response; whatever raises inside lands in the except branch
AgentExecute(agent_id, s, po, g1) ==
    IF po = "ok" /\ g1.kind = "return" /\ g1.value.type = "str"
    THEN LET clean_response == CleanResponse(g1.value.text) IN
         [s EXCEPT !.current_agent = agent_id,
                   !.response = <<clean_response>>,
                   !.edges_traversed = Append(@, agent_id),
                   !.memory.agent_responses = Put(@, agent_id, clean_response)]
    ELSE [s EXCEPT !.current_agent = agent_id,
                   !.response = <<"Agent " \o agent_id \o " encountered an error">>]

\* _execute_agent_flow: the agent chosen by the words of the question, one
\* further agent of its edge map entry, and the fallback state when the
\* chosen agent is not loaded; question.lower() raises on a question that is
\* not a str. c1 and c2 are the call scripts the two agents meet.
ExecuteAgentFlow(instance, s, c1, c2) ==
    IF ~IsStr(s.question) THEN [raised |-> TRUE, state |-> s]
    ELSE
    LET question_lower == Lower(s.question.chars)
        water_words == << <<"w","a","t","e","r">>,
                     <<"l","a","k","e">>,
                     <<"r","i","v","e","r">>,
                     <<"o","c","e","a","n">>,
                     <<"s","e","a">> >>
        forest_words == << <<"f","o","r","e","s","t">>,
                      <<"t","r","e","e">>,
                      <<"w","o","o","d">>,
                      <<"j","u","n","g","l","e">> >>
        history_words == << <<"h","i","s","t","o","r","y">>,
                       <<"p","r","e","v","i","o","u","s">>,
                       <<"r","e","m","e","m","b","e","r">>,
                       <<"b","e","f","o","r","e">> >>
        entry_point == instance.entry_point.text
        selected_agent ==
            IF AnyIn(water_words, question_lower)
            THEN IF "WaterBodyAnalyzer" \in instance.loaded_agents
                 THEN "WaterBodyAnalyzer" ELSE entry_point
            ELSE IF AnyIn(forest_words, question_lower)
            THEN IF "ForestAnalyzer" \in instance.loaded_agents
                 THEN "ForestAnalyzer" ELSE entry_point
            ELSE IF AnyIn(history_words, question_lower)
            THEN IF "SearchAgent" \in instance.loaded_agents
                 THEN "SearchAgent" ELSE entry_point
            ELSE entry_point
    IN
    IF selected_agent \notin instance.loaded_agents
    THEN [raised |-> FALSE,
          state |-> [s EXCEPT !.current_agent = "ErrorHandler",
                              !.response = <<"Selected agent " \o selected_agent
                                              \o " not available">>,
                              !.edges_traversed = <<"ErrorHandler">>]]
    ELSE
    LET result_state == AgentExecute(selected_agent, s, c1.po, c1.g1)
        possible_next_agents ==
            IF selected_agent \in DOMAIN instance.edge_map
            THEN instance.edge_map[selected_agent] ELSE <<>>
        eligible ==
            { i \in 1..Len(possible_next_agents) :
                /\ possible_next_agents[i] \in instance.loaded_agents
                /\ possible_next_agents[i] \notin Range(result_state.edges_traversed) }
    IN
    IF eligible = {} THEN [raised |-> FALSE, state |-> result_state]
    ELSE
    LET next_agent_id == possible_next_agents[Least(eligible)]
        next_state == AgentExecute(next_agent_id, result_state, c2.po, c2.g1)
    IN [raised |-> FALSE,
        state |-> [result_state EXCEPT
                      !.response = result_state.response
                                   \o <<"[Additional Analysis from " \o next_agent_id \o "]:">>
                                   \o next_state.response,
                      !.edges_traversed = next_state.edges_traversed,
                      !.memory = next_state.memory]]

\* the orchestrator node inside graph.invoke, and the edge to END
FrameworkOrchestrator ==
    /\ node = "orchestrator"
    /\ \E c1, c2 \in { c \in Scripts : c.g2 = NotCalled } :
        LET r == ExecuteAgentFlow(graph, state, c1, c2) IN
        /\ state' = r.state
        /\ node' = IF r.raised THEN "RAISED" ELSE "END"
    /\ route_history' = Append(route_history, "orchestrator")
    /\ clock' = clock + 1
    /\ UNCHANGED <<req, result, mem, graph, calls, memory_mode, generation_down, other>>

\* process_request after graph.invoke returned: _store_results_to_memory,
\* which catches what its writes raise, and the envelope
FrameworkReturn ==
    /\ node = "END"
    /\ mem' = IF StoreOutcome(memory_mode) = "stm_fail" THEN mem
              ELSE LET uid == UidStr(state.user_id) IN
                   [stm |-> SetStm(mem.stm, uid, state.current_agent,
                                   [fmt |-> "Q/A", q |-> state.question,
                                    a |-> state.response]),
                    ltm |-> SetLtm(mem.ltm, uid, state.current_agent,
                                   [fmt |-> "Query/Response/Edges", q |-> state.question,
                                    a |-> state.response,
                                    edges |-> state.edges_traversed])]
    /\ result' = [user |-> state.user, user_id |-> state.user_id,
                  question |-> state.question, agent |-> state.current_agent,
                  response |-> state.response, context |-> state.context,
                  edges_traversed |-> state.edges_traversed,
                  timestamp |-> state.timestamp, framework_version |-> "1.0.0"]
    /\ node' = "RETURNED"
    /\ UNCHANGED <<state, req, graph, route_history, calls, memory_mode,
                   generation_down, clock, other>>

\* the except branch of process_request around graph.invoke
FrameworkReturnError ==
    /\ node = "RAISED"
    /\ result' = [user |-> req.user, user_id |-> req.user_id, question |-> req.question,
                  agent |-> "ErrorHandler", response |-> <<"System error occurred">>,
                  error |-> TRUE, timestamp |-> clock]
    /\ node' = "RETURNED"
    /\ UNCHANGED <<state, req, mem, graph, route_history, calls, memory_mode,
                   generation_down, clock, other>>

NextFramework ==
    \/ FrameworkProcessRequest
    \/ FrameworkOrchestrator
    \/ FrameworkReturn
    \/ FrameworkReturnError

SpecFramework == InitFramework /\ [][NextFramework]_vars

\* C39: LangGraphFramework.process_request returns a response envelope, the
\* normal one or the one of "ErrorHandler", for every request, also when
\* agents.json could not be loaded at construction: no call leaves
\* process_request with an exception, and what a call returns holds an
\* agent and a response.
C39_AlwaysAnEnvelope ==
    /\ node # "RAISED_TO_CALLER"
    /\ node = "RETURNED" =>
          {"agent", "response", "question", "timestamp"} \subseteq DOMAIN result

====
